---- MODULE Spec2Model ----
(***************************************************************************)
(* Model of the conversion route of geojson-converter: the POST handler of *)
(* /api/convert turns a JSON request {data, includeMarkers, markers} into  *)
(* a GeoJSON FeatureCollection or an error response.                       *)
(*                                                                         *)
(* The sources hold two revisions of the handler: POST, which accepts flat *)
(* and nested batches and validates them, and the revision of              *)
(* app/api/convert/route.ts, POST_AreaData, which accepts nested batches   *)
(* and one marker.  A third revision, POST_WarningsAware, validates the    *)
(* coordinates and answers { geojson, warnings? }; the page calls it, its  *)
(* code is not among the sources and it is modelled from the written       *)
(* specification.  Each is modelled as one atomic action over a bounded    *)
(* set of requests; every helper below is a pure operator that mirrors one *)
(* part of the handlers' code.                                             *)
(***************************************************************************)
EXTENDS Integers, Sequences, FiniteSets, TLC

VARIABLES pc, handler, request, shape, response, warnings

\* The page: what the form held when Convert was pressed, and the React
\* state handleConvert sets.
VARIABLES form, loading, error, outputData, validationWarnings

pageVars == <<form, loading, error, outputData, validationWarnings>>

\* Several invocations of the handler in one server process: calls[n] holds
\* the position and the locals of invocation n, running is the invocation the
\* JavaScript thread is executing (0 for none).
VARIABLES calls, running

invocationVars == <<calls, running>>

vars == <<pc, handler, request, shape, response, warnings, pageVars,
          invocationVars>>

(***************************************************************************)
(* JSON / JavaScript values.  Every value is a record of the same four     *)
(* fields so that values of different JavaScript types can be compared:    *)
(*   t  the type tag, s  the text of a string, n  the value of a number    *)
(*   or boolean, a  the elements of an array.                              *)
(* Numbers are fixed-point: n counts ten-thousandths, so that 90.0001 is   *)
(* a number of the model.                                                  *)
(***************************************************************************)
\* The ten-thousandths in one.
Unit == 10000

Undef == [t |-> "undefined", s |-> "", n |-> 0, a |-> <<>>]

Null == [t |-> "null", s |-> "", n |-> 0, a |-> <<>>]

Str(x) == [t |-> "str", s |-> x, n |-> 0, a |-> <<>>]

\* The whole number k.
Num(k) == [t |-> "num", s |-> "", n |-> k * Unit, a |-> <<>>]

\* The number k / Unit.
Frac(k) == [t |-> "num", s |-> "", n |-> k, a |-> <<>>]

Bool(b) == [t |-> "bool", s |-> "", n |-> IF b THEN 1 ELSE 0, a |-> <<>>]

Arr(seq) == [t |-> "arr", s |-> "", n |-> 0, a |-> seq]

Obj == [t |-> "obj", s |-> "", n |-> 0, a |-> <<>>]

\* JavaScript truthiness, as used by `!station.name`, `!area.area_list`,
\* `includeMarkers && ...`.
Truthy(v) ==
    CASE v.t = "undefined" -> FALSE
      [] v.t = "null" -> FALSE
      [] v.t = "str" -> v.s # ""
      [] v.t = "num" -> v.n # 0
      [] v.t = "bool" -> v.n = 1
      [] OTHER -> TRUE

\* Array.isArray with `typeof v === 'object'` in its place.
IsArray_OrObject(v) == v.t = "arr" \/ v.t = "obj"

\* Array.isArray with a test of the length added to it.
IsArray_NonEmpty(v) == v.t = "arr" /\ v.a # <<>>

\* Array.isArray
IsArray(v) == v.t = "arr"

\* A raw point object: the six coordinate fields the handler looks at
\* (Undef = the key is absent).
Pt(lat, long, lng, latitude, longitude, lon) ==
    [lat |-> lat, long |-> long, lng |-> lng,
     latitude |-> latitude, longitude |-> longitude, lon |-> lon]

\* A top-level element or an area_list entry that is an object: the three
\* keys the handler looks at (Undef = the key is absent).
Item(name, polygon, area_list) ==
    [null |-> FALSE, name |-> name, polygon |-> polygon, area_list |-> area_list]

\* An element that is null: `'area_list' in item` and every read of a
\* property of it throw a TypeError.
NullItem ==
    [null |-> TRUE, name |-> Undef, polygon |-> Undef, area_list |-> Undef]

\* A custom marker {lat, lng, name}.
Marker(lat, lng, name) == [lat |-> lat, lng |-> lng, name |-> name]

\* The body of a request, as request.json() gives it: body is the JSON value
\* itself (Obj for an object, whose members are the other fields), the other
\* fields are what the destructuring `const { data, ... } = ...` reads.
Request(data, includeMarkers, markers) ==
    [malformed |-> FALSE, body |-> Obj, data |-> data,
     includeMarkers |-> includeMarkers, markers |-> markers, markerData |-> <<>>]

\* A body that is a JSON array: an array has no property data, includeMarkers,
\* markers or markerData, so the destructuring reads undefined for each.
ArrayBody(elements) ==
    [malformed |-> FALSE, body |-> Arr(elements), data |-> Undef,
     includeMarkers |-> Undef, markers |-> Undef, markerData |-> <<>>]

\* A request in the form route.ts reads: markerData is <<>> (absent) or
\* <<marker>>.
AreaDataRequest(data, includeMarkers, markerData) ==
    [malformed |-> FALSE, body |-> Obj, data |-> data,
     includeMarkers |-> includeMarkers, markers |-> Undef,
     markerData |-> markerData]

\* A body that is not JSON: request.json() rejects.
MalformedRequest ==
    [malformed |-> TRUE, body |-> Undef, data |-> Undef,
     includeMarkers |-> Undef, markers |-> Undef, markerData |-> <<>>]

(***************************************************************************)
(* JSON.parse on the texts a polygon field carries.  The decoder is given  *)
(* by its result on each text of PolygonTexts; any other text of the model *)
(* is not JSON and makes JSON.parse throw (ok = FALSE).                    *)
(***************************************************************************)
JSONParse(text) ==
    CASE text = "[]" -> [ok |-> TRUE, val |-> Arr(<<>>)]
      [] text = "{}" -> [ok |-> TRUE, val |-> Obj]
      [] text = "null" -> [ok |-> TRUE, val |-> Null]
      [] text = "5" -> [ok |-> TRUE, val |-> Num(5)]
      [] text = "[{\"lat\":0,\"long\":1}]" ->
            [ok |-> TRUE,
             val |-> Arr(<<Pt(Num(0), Num(1), Undef, Undef, Undef, Undef)>>)]
      [] text = "[{\"lat\":0,\"long\":1},{\"lat\":1,\"lng\":1}]" ->
            [ok |-> TRUE,
             val |-> Arr(<<Pt(Num(0), Num(1), Undef, Undef, Undef, Undef),
                           Pt(Num(1), Undef, Num(1), Undef, Undef, Undef)>>)]
      [] text = "[{\"x\":0,\"y\":1}]" ->
            [ok |-> TRUE,
             val |-> Arr(<<Pt(Undef, Undef, Undef, Undef, Undef, Undef)>>)]
      [] OTHER -> [ok |-> FALSE, val |-> Undef]

(***************************************************************************)
(* Responses.  A response is {status, keys, error, geojson}: keys are the   *)
(* top-level keys of the JSON body; an error response carries no           *)
(* FeatureCollection (NoGeojson) and a success response no error text.     *)
(***************************************************************************)
NoGeojson == [type |-> "none", features |-> <<>>]

\* NextResponse.json({ error: message }, { status })
ErrorResponse(status, message) ==
    [status |-> status, keys |-> {"error"}, error |-> message,
     geojson |-> NoGeojson]

\* NextResponse.json(geojson): the body is the FeatureCollection itself.
GeojsonResponse(features) ==
    [status |-> 200, keys |-> {"type", "features"}, error |-> "",
     geojson |-> [type |-> "FeatureCollection", features |-> features]]

ExpectedArrayError ==
    ErrorResponse(400, "Invalid input: Expected an array of station data or area data")

InternalError == ErrorResponse(500, "Failed to convert data to GeoJSON")

\* Error of the flat validation pass; i is the 0-based index.
FlatMissingError(i, field) ==
    ErrorResponse(400, "Station at index " \o ToString(i)
                       \o ": Missing required '" \o field \o "' field")

\* Error of the nested validation pass; both indices are 0-based.
NestedMissingError(areaIndex, stationIndex, field) ==
    ErrorResponse(400, "Station at area[" \o ToString(areaIndex)
                       \o "].area_list[" \o ToString(stationIndex)
                       \o "]: Missing required '" \o field \o "' field")

(***************************************************************************)
(* Shape detection.                                                        *)
(***************************************************************************)
\* `item.area_list` in place of `'area_list' in item`.
HasAreaList_Truthy(item) == Truthy(item.area_list)

\* 'area_list' in item
HasAreaList(item) == item.area_list.t # "undefined"

\* data.some(item => 'area_list' in item) throws: it reaches a null element
\* before an element that has the key.
DetectionThrows(data) ==
    \E i \in 1..Len(data.a) :
        /\ data.a[i].null
        /\ \A j \in 1..(i - 1) : ~HasAreaList(data.a[j])

\* const isSimpleArray = data.length > 0 && !data.some(item => 'area_list' in item)
IsSimpleArray(data) ==
    /\ Len(data.a) > 0
    /\ ~ \E i \in 1..Len(data.a) : HasAreaList(data.a[i])

(***************************************************************************)
(* Coordinate mapping and ring closure.                                    *)
(***************************************************************************)
\* The map callback returning [lat, lng].
MapPoint_LatLng(point) ==
    IF point.lat # Undef /\ point.long # Undef
    THEN [ok |-> TRUE, coord |-> <<point.lat, point.long>>]
    ELSE IF point.lat # Undef /\ point.lng # Undef
    THEN [ok |-> TRUE, coord |-> <<point.lat, point.lng>>]
    ELSE IF point.latitude # Undef /\ point.longitude # Undef
    THEN [ok |-> TRUE, coord |-> <<point.latitude, point.longitude>>]
    ELSE IF point.lat # Undef /\ point.lon # Undef
    THEN [ok |-> TRUE, coord |-> <<point.lat, point.lon>>]
    ELSE [ok |-> FALSE, coord |-> <<Undef, Undef>>]

\* The map callback trying (lat, lng) before (lat, long).
MapPoint_LngFirst(point) ==
    IF point.lat # Undef /\ point.lng # Undef
    THEN [ok |-> TRUE, coord |-> <<point.lng, point.lat>>]
    ELSE IF point.lat # Undef /\ point.long # Undef
    THEN [ok |-> TRUE, coord |-> <<point.long, point.lat>>]
    ELSE IF point.latitude # Undef /\ point.longitude # Undef
    THEN [ok |-> TRUE, coord |-> <<point.longitude, point.latitude>>]
    ELSE IF point.lat # Undef /\ point.lon # Undef
    THEN [ok |-> TRUE, coord |-> <<point.lon, point.lat>>]
    ELSE [ok |-> FALSE, coord |-> <<Undef, Undef>>]

\* The map callback throwing when a value of the matching pair is no number.
MapPoint_NumbersOnly(point) ==
    LET lat == IF point.lat # Undef THEN point.lat ELSE point.latitude
        lng == IF point.lat # Undef /\ point.long # Undef THEN point.long
               ELSE IF point.lat # Undef /\ point.lng # Undef THEN point.lng
               ELSE IF point.latitude # Undef /\ point.longitude # Undef
               THEN point.longitude
               ELSE point.lon
    IN  IF lat.t = "num" /\ lng.t = "num"
        THEN [ok |-> TRUE, coord |-> <<lng, lat>>]
        ELSE [ok |-> FALSE, coord |-> <<Undef, Undef>>]

\* The body of polygonData.map: the first matching field pair gives [lng, lat];
\* no matching pair throws (ok = FALSE).
MapPoint(point) ==
    IF point.lat # Undef /\ point.long # Undef
    THEN [ok |-> TRUE, coord |-> <<point.long, point.lat>>]
    ELSE IF point.lat # Undef /\ point.lng # Undef
    THEN [ok |-> TRUE, coord |-> <<point.lng, point.lat>>]
    ELSE IF point.latitude # Undef /\ point.longitude # Undef
    THEN [ok |-> TRUE, coord |-> <<point.longitude, point.latitude>>]
    ELSE IF point.lat # Undef /\ point.lon # Undef
    THEN [ok |-> TRUE, coord |-> <<point.lon, point.lat>>]
    ELSE [ok |-> FALSE, coord |-> <<Undef, Undef>>]

\* The ring closure comparing the longitudes only.
CloseRing_LngOnly(coordinates) ==
    IF Len(coordinates) > 0
    THEN IF coordinates[1][1] # coordinates[Len(coordinates)][1]
         THEN Append(coordinates, coordinates[1])
         ELSE coordinates
    ELSE coordinates

\* The ring closure without its comparison.
CloseRing_Always(coordinates) ==
    IF Len(coordinates) > 0
    THEN Append(coordinates, coordinates[1])
    ELSE coordinates

\* "Ensure the polygon is closed": push a copy of the first pair when the
\* first and last pairs differ in a component.
CloseRing(coordinates) ==
    IF Len(coordinates) > 0
    THEN LET firstPoint == coordinates[1]
             lastPoint == coordinates[Len(coordinates)]
         IN  IF firstPoint[1] # lastPoint[1] \/ firstPoint[2] # lastPoint[2]
             THEN Append(coordinates, firstPoint)
             ELSE coordinates
    ELSE coordinates

PolygonFeature(name, coordinates) ==
    [type |-> "Feature",
     properties |-> [name |-> name],
     geometry |-> [type |-> "Polygon", coordinates |-> <<coordinates>>]]

\* The Point feature with its coordinates as [lat, lng].
PointFeature_LatLng(marker) ==
    [type |-> "Feature",
     properties |-> [name |-> marker.name],
     geometry |-> [type |-> "Point", coordinates |-> <<marker.lat, marker.lng>>]]

\* const pointFeature = { ... coordinates: [marker.lng, marker.lat] }
PointFeature(marker) ==
    [type |-> "Feature",
     properties |-> [name |-> marker.name],
     geometry |-> [type |-> "Point", coordinates |-> <<marker.lng, marker.lat>>]]

\* The conversion without the test of the length: an empty list gives a
\* feature with an empty ring.
ConvertPolygon_NoLengthTest(station, polygonData) ==
    IF ~IsArray(polygonData)
    THEN <<>>
    ELSE IF Len(polygonData.a) = 0
    THEN <<PolygonFeature(station.name, <<>>)>>
    ELSE LET mapped == [i \in 1..Len(polygonData.a) |-> MapPoint(polygonData.a[i])]
         IN  IF \E i \in 1..Len(mapped) : ~mapped[i].ok
             THEN <<>>
             ELSE <<PolygonFeature(station.name,
                        CloseRing([i \in 1..Len(mapped) |-> mapped[i].coord]))>>

\* The conversion leaving out the points that match no field pair instead
\* of throwing.
ConvertPolygon_PartialRing(station, polygonData) ==
    IF ~IsArray(polygonData) \/ Len(polygonData.a) = 0
    THEN <<>>
    ELSE LET matched == SelectSeq(polygonData.a, LAMBDA p : MapPoint(p).ok)
         IN  IF matched = <<>>
             THEN <<>>
             ELSE <<PolygonFeature(station.name,
                        CloseRing([i \in 1..Len(matched) |-> MapPoint(matched[i]).coord]))>>

\* The part of the per-station try block after polygonData is resolved:
\* the features (none or one) the station pushes.
ConvertPolygon(station, polygonData) ==
    IF ~IsArray(polygonData) \/ Len(polygonData.a) = 0
    THEN <<>>
    ELSE LET mapped == [i \in 1..Len(polygonData.a) |-> MapPoint(polygonData.a[i])]
         IN  IF \E i \in 1..Len(mapped) : ~mapped[i].ok
             THEN <<>>      \* the throw of the map callback, caught per station
             ELSE <<PolygonFeature(station.name,
                        CloseRing([i \in 1..Len(mapped) |-> mapped[i].coord]))>>

\* One iteration of the processing loop (try ... catch included): the
\* features the station pushes.
ProcessStation(station) ==
    IF station.polygon.t = "str"
    THEN LET parsed == JSONParse(station.polygon.s)
         IN  IF parsed.ok
             THEN ConvertPolygon(station, parsed.val)
             ELSE <<>>      \* JSON.parse threw, caught per station
    ELSE IF IsArray(station.polygon)
    THEN ConvertPolygon(station, station.polygon)
    ELSE <<>>

\* The processing loop with the name read once, before the loop: every
\* feature is named as the first station.
RECURSIVE ProcessStationsNamed(_, _)
ProcessStationsNamed(stations, name) ==
    IF stations = <<>>
    THEN <<>>
    ELSE ProcessStation([Head(stations) EXCEPT !.name = name])
         \o ProcessStationsNamed(Tail(stations), name)

ProcessStations_FirstName(stations) ==
    IF stations = <<>>
    THEN <<>>
    ELSE ProcessStationsNamed(stations, Head(stations).name)

\* The processing loop with the try around the loop instead of its body: the
\* first station that throws ends the loop.
RECURSIVE ProcessStations_StopAtFailure(_)
ProcessStations_StopAtFailure(stations) ==
    IF stations = <<>>
    THEN <<>>
    ELSE IF ProcessStation(Head(stations)) = <<>>
    THEN <<>>
    ELSE ProcessStation(Head(stations))
         \o ProcessStations_StopAtFailure(Tail(stations))

\* for (const station of stations) { ... }
RECURSIVE ProcessStations(_)
ProcessStations(stations) ==
    IF stations = <<>>
    THEN <<>>
    ELSE ProcessStation(Head(stations)) \o ProcessStations(Tail(stations))

\* `!area.area_list || !Array.isArray(area.area_list)`: the area is skipped.
SkipArea(area) == ~Truthy(area.area_list) \/ ~IsArray(area.area_list)

\* for (const area of areas) { ... for (const station of area.area_list) ... }
RECURSIVE ProcessAreas(_)
ProcessAreas(areas) ==
    IF areas = <<>>
    THEN <<>>
    ELSE (IF SkipArea(Head(areas))
          THEN <<>>
          ELSE ProcessStations(Head(areas).area_list.a))
         \o ProcessAreas(Tail(areas))

(***************************************************************************)
(* Structural validation passes.                                           *)
(***************************************************************************)
\* The validation loop body without its test of the polygon.
MissingField_NameOnly(station) ==
    IF ~Truthy(station.name) THEN "name" ELSE ""

\* The field the validation loop body reports for a station, "" for none.
MissingField(station) ==
    IF ~Truthy(station.name) THEN "name"
    ELSE IF ~Truthy(station.polygon) THEN "polygon"
    ELSE ""

\* First loop of the flat branch: the error it returns, or NoError.
NoError == ErrorResponse(0, "")

RECURSIVE ValidateStationsFrom(_, _)
ValidateStationsFrom(stations, i) ==
    IF i > Len(stations)
    THEN NoError
    ELSE IF stations[i].null
    THEN InternalError              \* `station.name` throws: outer catch
    ELSE IF MissingField(stations[i]) # ""
    THEN FlatMissingError(i - 1, MissingField(stations[i]))
    ELSE ValidateStationsFrom(stations, i + 1)

ValidateStations(stations) == ValidateStationsFrom(stations, 1)

\* Inner loop of the nested validation pass over one area_list.
RECURSIVE ValidateAreaListFrom(_, _, _)
ValidateAreaListFrom(areaIndex, list, j) ==
    IF j > Len(list)
    THEN NoError
    ELSE IF list[j].null
    THEN InternalError              \* `station.name` throws: outer catch
    ELSE IF MissingField(list[j]) # ""
    THEN NestedMissingError(areaIndex - 1, j - 1, MissingField(list[j]))
    ELSE ValidateAreaListFrom(areaIndex, list, j + 1)

\* The outer loop with the fields of a skipped element tested before it is
\* skipped.
RECURSIVE ValidateAreasFrom_OwnFields(_, _)
ValidateAreasFrom_OwnFields(areas, i) ==
    IF i > Len(areas)
    THEN NoError
    ELSE IF areas[i].null
    THEN InternalError
    ELSE IF SkipArea(areas[i])
    THEN (IF MissingField(areas[i]) # ""
          THEN FlatMissingError(i - 1, MissingField(areas[i]))
          ELSE ValidateAreasFrom_OwnFields(areas, i + 1))
    ELSE LET e == ValidateAreaListFrom(i, areas[i].area_list.a, 1)
         IN  IF e # NoError THEN e ELSE ValidateAreasFrom_OwnFields(areas, i + 1)

\* Outer loop of the nested validation pass.
RECURSIVE ValidateAreasFrom(_, _)
ValidateAreasFrom(areas, i) ==
    IF i > Len(areas)
    THEN NoError
    ELSE IF areas[i].null
    THEN InternalError              \* `area.area_list` throws: outer catch
    ELSE IF SkipArea(areas[i])
    THEN ValidateAreasFrom(areas, i + 1)
    ELSE LET e == ValidateAreaListFrom(i, areas[i].area_list.a, 1)
         IN  IF e # NoError THEN e ELSE ValidateAreasFrom(areas, i + 1)

ValidateAreas(areas) == ValidateAreasFrom(areas, 1)

(***************************************************************************)
(* Custom markers.                                                         *)
(***************************************************************************)
\* Destructuring defaults: includeMarkers = false, markers = [].
IncludeMarkers(req) ==
    IF req.includeMarkers = Undef THEN Bool(FALSE) ELSE req.includeMarkers

MarkersOf(req) == IF req.markers = Undef THEN Arr(<<>>) ELSE req.markers

\* `includeMarkers && markers.length > 0` throws: markers is null (the
\* default [] stands in for undefined only).
MarkersThrow(req) == Truthy(IncludeMarkers(req)) /\ MarkersOf(req) = Null

\* The markers added without the test of includeMarkers.
MarkerFeatures_Unrequested(req) ==
    IF Len(MarkersOf(req).a) > 0
    THEN [i \in 1..Len(MarkersOf(req).a) |-> PointFeature(MarkersOf(req).a[i])]
    ELSE <<>>

\* "Add custom markers if requested"
MarkerFeatures(req) ==
    IF Truthy(IncludeMarkers(req)) /\ Len(MarkersOf(req).a) > 0
    THEN [i \in 1..Len(MarkersOf(req).a) |-> PointFeature(MarkersOf(req).a[i])]
    ELSE <<>>

(***************************************************************************)
(* The handler of app/api/convert/route.ts: nested batches only, textual   *)
(* polygons only, the field pair (lat, long) only, one optional marker.    *)
(***************************************************************************)
AreaDataExpectedArrayError ==
    ErrorResponse(400, "Invalid input: Expected an array of area data")

\* The text of n objects joined by String(array).
RECURSIVE ObjectsText(_)
ObjectsText(n) ==
    IF n = 0 THEN ""
    ELSE IF n = 1 THEN "[object Object]"
    ELSE "[object Object]," \o ObjectsText(n - 1)

\* The decimal digits of frac / Unit, a fraction below one.
RECURSIVE FractionDigits(_)
FractionDigits(frac) ==
    IF frac = 0
    THEN ""
    ELSE ToString((frac * 10) \div Unit) \o FractionDigits((frac * 10) % Unit)

\* String(number) for the number n / Unit.
NumberText(n) ==
    LET m == IF n < 0 THEN -n ELSE n
    IN  (IF n < 0 THEN "-" ELSE "")
        \o ToString(m \div Unit)
        \o (IF m % Unit = 0 THEN "" ELSE "." \o FractionDigits(m % Unit))

\* The conversion to text JSON.parse applies to its argument.
ToText(v) ==
    CASE v.t = "str" -> v.s
      [] v.t = "undefined" -> "undefined"
      [] v.t = "null" -> "null"
      [] v.t = "num" -> NumberText(v.n)
      [] v.t = "bool" -> IF v.n = 1 THEN "true" ELSE "false"
      [] v.t = "arr" -> ObjectsText(Len(v.a))
      [] OTHER -> "[object Object]"

\* JSON.stringify of an array element: undefined is written as null.
JsonElement(v) == IF v = Undef THEN Null ELSE v

\* polygonData.map(point => [point.long, point.lat]), as the response
\* carries it.
AreaDataCoordinates(points) ==
    [i \in 1..Len(points) |->
        <<JsonElement(points[i].long), JsonElement(points[i].lat)>>]

\* One iteration of the station loop of route.ts (try ... catch included).
AreaDataProcessStation(station) ==
    LET parsed == JSONParse(ToText(station.polygon))
    IN  IF ~parsed.ok
        THEN <<>>           \* JSON.parse threw, caught per station
        ELSE IF ~IsArray(parsed.val) \/ Len(parsed.val.a) = 0
        THEN <<>>
        ELSE <<PolygonFeature(station.name,
                              CloseRing(AreaDataCoordinates(parsed.val.a)))>>

RECURSIVE AreaDataProcessStations(_)
AreaDataProcessStations(stations) ==
    IF stations = <<>>
    THEN <<>>
    ELSE AreaDataProcessStation(Head(stations))
         \o AreaDataProcessStations(Tail(stations))

\* for (const area of data) { ... }
RECURSIVE AreaDataProcessAreas(_)
AreaDataProcessAreas(areas) ==
    IF areas = <<>>
    THEN <<>>
    ELSE (IF SkipArea(Head(areas))
          THEN <<>>
          ELSE AreaDataProcessStations(Head(areas).area_list.a))
         \o AreaDataProcessAreas(Tail(areas))

\* The loops of route.ts throw: `area.area_list` on a null area, or
\* `station.polygon` on a null station, whose catch throws again at
\* `station.id`.
AreaDataThrows(areas) ==
    \E i \in 1..Len(areas) :
        \/ areas[i].null
        \/ /\ ~SkipArea(areas[i])
           /\ \E j \in 1..Len(areas[i].area_list.a) : areas[i].area_list.a[j].null

\* "Add custom marker if requested": markerData is <<>> when absent.
AreaDataMarkerFeatures(req) ==
    IF Truthy(IncludeMarkers(req)) /\ req.markerData # <<>>
    THEN <<PointFeature(req.markerData[1])>>
    ELSE <<>>

\* export async function POST(request) of route.ts: the response.
AreaDataRespond(req) ==
    IF req.malformed
    THEN InternalError
    ELSE IF ~IsArray(req.data)
    THEN AreaDataExpectedArrayError
    ELSE IF AreaDataThrows(req.data.a)
    THEN InternalError                   \* outer catch: features is dropped
    ELSE GeojsonResponse(AreaDataProcessAreas(req.data.a)
                         \o AreaDataMarkerFeatures(req))

(***************************************************************************)
(* Warnings.  The route that records warnings (the one the page reads      *)
(* `responseData.warnings` from) is not among the source files; the        *)
(* operators of this section follow the written specification (sections    *)
(* 3, 4.3 and 4.4).  A warning is                                          *)
(*   {featureIndex, featureName, coordinateIndex, coordinate, issue}.      *)
(***************************************************************************)
\* Texts that coerce to a number, with the number they coerce to.
NumericText(text) ==
    CASE text = "0" -> [ok |-> TRUE, n |-> 0]
      [] text = "1" -> [ok |-> TRUE, n |-> 1 * Unit]
      [] text = "90" -> [ok |-> TRUE, n |-> 90 * Unit]
      [] text = "90.0001" -> [ok |-> TRUE, n |-> 90 * Unit + 1]
      [] text = "91" -> [ok |-> TRUE, n |-> 91 * Unit]
      [] OTHER -> [ok |-> FALSE, n |-> 0]

\* Section 4.4 step 1: coercion to a finite number.
Coerce(v) ==
    CASE v.t = "num" -> [ok |-> TRUE, n |-> v.n]
      [] v.t = "str" -> NumericText(v.s)
      [] OTHER -> [ok |-> FALSE, n |-> 0]

LatInRange(n) == -90 * Unit <= n /\ n <= 90 * Unit

LngInRange(n) == -180 * Unit <= n /\ n <= 180 * Unit

\* The classification with the latitude looked at before the pair.
CoordinateIssue_LatitudeFirst(lat, lng) ==
    LET la == Coerce(lat)
        lo == Coerce(lng)
    IN  IF ~la.ok THEN "invalid_latitude"
        ELSE IF ~lo.ok THEN "invalid_longitude"
        ELSE IF ~LatInRange(la.n) THEN "invalid_latitude"
        ELSE IF ~LngInRange(lo.n) THEN "invalid_longitude"
        ELSE ""

\* Section 4.4 steps 2-4: the issue of a matched (lat, lng) pair, "" for none.
CoordinateIssue(lat, lng) ==
    LET la == Coerce(lat)
        lo == Coerce(lng)
    IN  IF ~la.ok /\ ~lo.ok THEN "both_invalid"
        ELSE IF ~la.ok THEN "invalid_latitude"
        ELSE IF ~lo.ok THEN "invalid_longitude"
        ELSE IF ~LatInRange(la.n) /\ ~LngInRange(lo.n) THEN "both_invalid"
        ELSE IF ~LatInRange(la.n) THEN "invalid_latitude"
        ELSE IF ~LngInRange(lo.n) THEN "invalid_longitude"
        ELSE ""

\* The substitution zeroing a component that is out of range as well.
FallbackCoordinate_ZeroOutOfRange(lat, lng) ==
    <<IF Coerce(lng).ok /\ LngInRange(Coerce(lng).n) THEN Coerce(lng).n ELSE 0,
      IF Coerce(lat).ok /\ LatInRange(Coerce(lat).n) THEN Coerce(lat).n ELSE 0>>

\* Section 4.4 step 5: [lng-or-0, lat-or-0].
FallbackCoordinate(lat, lng) == <<Coerce(lng).n, Coerce(lat).n>>

Warning(featureIndex, featureName, coordinateIndex, coordinate, issue) ==
    [featureIndex |-> featureIndex, featureName |-> featureName,
     coordinateIndex |-> coordinateIndex, coordinate |-> coordinate,
     issue |-> issue]

\* Warnings of the points of one resolved polygon, from point k on: a point
\* matching no field pair aborts the feature and ends the scan.
RECURSIVE PointWarningsFrom(_, _, _, _)
PointWarningsFrom(points, k, featureIndex, featureName) ==
    IF k > Len(points) \/ ~MapPoint(points[k]).ok
    THEN <<>>
    ELSE LET c == MapPoint(points[k]).coord
             issue == CoordinateIssue(c[2], c[1])
         IN  (IF issue = ""
              THEN <<>>
              ELSE <<Warning(featureIndex, featureName, k - 1,
                             FallbackCoordinate(c[2], c[1]), issue)>>)
             \o PointWarningsFrom(points, k + 1, featureIndex, featureName)

\* Section 4.3: the warnings one feature records.
StationWarnings(station, featureIndex) ==
    LET resolved ==
            IF station.polygon.t = "str"
            THEN JSONParse(station.polygon.s)
            ELSE [ok |-> TRUE, val |-> station.polygon]
    IN  IF ~resolved.ok
        THEN <<Warning(featureIndex, station.name, -1, <<0, 0>>, "invalid_json")>>
        ELSE IF ~IsArray(resolved.val)
        THEN <<>>
        ELSE PointWarningsFrom(resolved.val.a, 1, featureIndex, station.name)

\* The warnings with every feature given the position of the first.
RECURSIVE StationsWarnings_FixedIndex(_, _)
StationsWarnings_FixedIndex(stations, featureIndex) ==
    IF stations = <<>>
    THEN <<>>
    ELSE StationWarnings(Head(stations), featureIndex)
         \o StationsWarnings_FixedIndex(Tail(stations), featureIndex)

\* Warnings of a list of features whose first has position featureIndex.
RECURSIVE StationsWarnings(_, _)
StationsWarnings(stations, featureIndex) ==
    IF stations = <<>>
    THEN <<>>
    ELSE StationWarnings(Head(stations), featureIndex)
         \o StationsWarnings(Tail(stations), featureIndex + 1)

\* The features of a nested batch in traversal order (skipped groups left out):
\* the flattening context of the running global index.
RECURSIVE FlattenAreas(_)
FlattenAreas(areas) ==
    IF areas = <<>>
    THEN <<>>
    ELSE (IF SkipArea(Head(areas)) THEN <<>> ELSE Head(areas).area_list.a)
         \o FlattenAreas(Tail(areas))

(***************************************************************************)
(* The handler.                                                            *)
(***************************************************************************)
\* The stations the two passes of the taken branch walk.
ReachableStations(data) ==
    IF IsSimpleArray(data) THEN data.a ELSE FlattenAreas(data.a)

\* The first pass of the taken branch.
Validate(data) ==
    IF IsSimpleArray(data) THEN ValidateStations(data.a) ELSE ValidateAreas(data.a)

\* The second pass of the taken branch.
Process(data) ==
    IF IsSimpleArray(data) THEN ProcessStations(data.a) ELSE ProcessAreas(data.a)

\* The branch POST takes: "none" when it returns before shape detection.
ShapeOf(req) ==
    IF req.malformed \/ ~IsArray(req.data) THEN "none"
    ELSE IF DetectionThrows(req.data) THEN "none"
    ELSE IF IsSimpleArray(req.data) THEN "Flat"
    ELSE "Nested"

\* POST with an outer catch that sends the features built before the fault.
Respond_PartialOutput(req) ==
    IF req.malformed
    THEN InternalError
    ELSE IF ~IsArray(req.data)
    THEN ExpectedArrayError
    ELSE IF DetectionThrows(req.data)
    THEN InternalError
    ELSE IF Validate(req.data) # NoError
    THEN Validate(req.data)
    ELSE IF MarkersThrow(req)
    THEN [status |-> 500, keys |-> {"error", "features"},
          error |-> InternalError.error,
          geojson |-> [type |-> "FeatureCollection",
                       features |-> Process(req.data)]]
    ELSE GeojsonResponse(Process(req.data) \o MarkerFeatures(req))

\* The station throws inside its try block: its text fails to decode, or a
\* point of its list matches no field pair.
StationThrows(station) ==
    IF station.polygon.t = "str"
    THEN \/ ~JSONParse(station.polygon.s).ok
         \/ /\ IsArray(JSONParse(station.polygon.s).val)
            /\ \E i \in 1..Len(JSONParse(station.polygon.s).val.a) :
                  ~MapPoint(JSONParse(station.polygon.s).val.a[i]).ok
    ELSE /\ IsArray(station.polygon)
         /\ \E i \in 1..Len(station.polygon.a) : ~MapPoint(station.polygon.a[i]).ok

\* POST without the try block of the stations: what a station throws reaches
\* the outer catch.
Respond_UncaughtStation(req) ==
    IF req.malformed
    THEN InternalError
    ELSE IF ~IsArray(req.data)
    THEN ExpectedArrayError
    ELSE IF DetectionThrows(req.data)
    THEN InternalError
    ELSE IF Validate(req.data) # NoError
    THEN Validate(req.data)
    ELSE IF \E k \in 1..Len(ReachableStations(req.data)) :
                StationThrows(ReachableStations(req.data)[k])
    THEN InternalError
    ELSE IF MarkersThrow(req)
    THEN InternalError
    ELSE GeojsonResponse(Process(req.data) \o MarkerFeatures(req))

\* export async function POST(request): the response.
Respond(req) ==
    IF req.malformed
    THEN InternalError                   \* request.json() rejects: outer catch
    ELSE IF ~IsArray(req.data)
    THEN ExpectedArrayError
    ELSE IF DetectionThrows(req.data)
    THEN InternalError                   \* outer catch
    ELSE IF Validate(req.data) # NoError
    THEN Validate(req.data)
    ELSE IF MarkersThrow(req)
    THEN InternalError                   \* outer catch: features is dropped
    ELSE GeojsonResponse(Process(req.data) \o MarkerFeatures(req))

\* The warnings the features of the data record.
WarningsOf(req) ==
    IF Respond(req).status # 200
    THEN <<>>
    ELSE StationsWarnings(ReachableStations(req.data), 0)

(***************************************************************************)
(* The warnings-aware revision of the handler, the one the page reads      *)
(* `responseData.geojson` and `responseData.warnings` from.  It is not     *)
(* among the source files; it is modelled from the written specification   *)
(* (sections 4.1 to 4.6 and 6), on top of the operators of POST for the    *)
(* parts the specification describes as POST does them.                    *)
(***************************************************************************)
\* Section 4.4 steps 5-6: the pair returned for a matched (lat, lng), as
\* numbers, with 0 for a component that does not coerce.
ValidateCoordinate(lat, lng) ==
    <<Frac(FallbackCoordinate(lat, lng)[1]), Frac(FallbackCoordinate(lat, lng)[2])>>

\* Sections 4.3 to 4.6 for one resolved polygon: the features (none or one)
\* it emits.
ValidatedPolygon(station, polygonData) ==
    IF ~IsArray(polygonData) \/ Len(polygonData.a) = 0
    THEN <<>>
    ELSE LET mapped == [i \in 1..Len(polygonData.a) |-> MapPoint(polygonData.a[i])]
         IN  IF \E i \in 1..Len(mapped) : ~mapped[i].ok
             THEN <<>>      \* no field pair: the feature is dropped
             ELSE <<PolygonFeature(station.name,
                        CloseRing([i \in 1..Len(mapped) |->
                            ValidateCoordinate(mapped[i].coord[2],
                                               mapped[i].coord[1])]))>>

\* Section 4.3: the features one feature-like object emits.
ValidatedStation(station) ==
    IF station.polygon.t = "str"
    THEN LET parsed == JSONParse(station.polygon.s)
         IN  IF parsed.ok
             THEN ValidatedPolygon(station, parsed.val)
             ELSE <<>>      \* decode failure: a warning, no feature
    ELSE IF IsArray(station.polygon)
    THEN ValidatedPolygon(station, station.polygon)
    ELSE <<>>

RECURSIVE ValidatedStations(_)
ValidatedStations(stations) ==
    IF stations = <<>>
    THEN <<>>
    ELSE ValidatedStation(Head(stations)) \o ValidatedStations(Tail(stations))

\* Section 4.6: "default name Custom Marker when name is blank".
MarkerName(marker) ==
    IF Truthy(marker.name) THEN marker.name ELSE Str("Custom Marker")

\* Section 4.6: one Point feature per marker, whatever its validation gives.
ValidatedMarkerFeatures(req) ==
    IF Truthy(IncludeMarkers(req)) /\ Len(MarkersOf(req).a) > 0
    THEN [i \in 1..Len(MarkersOf(req).a) |->
            [type |-> "Feature",
             properties |-> [name |-> MarkerName(MarkersOf(req).a[i])],
             geometry |->
                 [type |-> "Point",
                  coordinates |-> ValidateCoordinate(MarkersOf(req).a[i].lat,
                                                     MarkersOf(req).a[i].lng)]]]
    ELSE <<>>

\* Section 4.6: the warnings of the markers from marker k on, featureIndex -1.
\* The coordinateIndex of a marker warning is not fixed by the specification;
\* the position of the marker is used.
RECURSIVE MarkerWarningsFrom(_, _)
MarkerWarningsFrom(markers, k) ==
    IF k > Len(markers)
    THEN <<>>
    ELSE (IF CoordinateIssue(markers[k].lat, markers[k].lng) = ""
          THEN <<>>
          ELSE <<Warning(-1, MarkerName(markers[k]), k - 1,
                         FallbackCoordinate(markers[k].lat, markers[k].lng),
                         CoordinateIssue(markers[k].lat, markers[k].lng))>>)
         \o MarkerWarningsFrom(markers, k + 1)

MarkerWarnings(req) ==
    IF Truthy(IncludeMarkers(req)) /\ Len(MarkersOf(req).a) > 0
    THEN MarkerWarningsFrom(MarkersOf(req).a, 1)
    ELSE <<>>

\* Section 6, warnings-aware variant: { geojson, warnings? }.
WarningsResponse(features, recorded) ==
    [status |-> 200,
     keys |-> IF recorded = <<>> THEN {"geojson"} ELSE {"geojson", "warnings"},
     error |-> "",
     geojson |-> [type |-> "FeatureCollection", features |-> features]]

\* The warnings accumulated by one invocation.
RecordedWarnings(req) ==
    IF req.malformed \/ ~IsArray(req.data) \/ Validate(req.data) # NoError
    THEN <<>>
    ELSE WarningsOf(req) \o MarkerWarnings(req)

\* The response of the warnings-aware revision.
WarningsAwareRespond(req) ==
    IF req.malformed
    THEN InternalError
    ELSE IF ~IsArray(req.data)
    THEN ExpectedArrayError
    ELSE IF Validate(req.data) # NoError
    THEN Validate(req.data)
    ELSE WarningsResponse(ValidatedStations(ReachableStations(req.data))
                              \o ValidatedMarkerFeatures(req),
                          RecordedWarnings(req))

(***************************************************************************)
(* The page (app/page.tsx): handleConvert checks the form, sends the       *)
(* request and shows the answer.  Texts of the form are plain strings; a   *)
(* marker of the form is {lat, lng, name} with three texts.                *)
(***************************************************************************)
PageMarker(lat, lng, name) == [lat |-> lat, lng |-> lng, name |-> name]

\* inputData.trim(), on the texts of the model.
Trim(text) == IF text = "  " THEN "" ELSE text

\* JSON.parse(inputData), on the texts of PageInputs; any other text is not
\* JSON.
ParseInput(text) ==
    CASE text = "[]" -> [ok |-> TRUE, val |-> Arr(<<>>)]
      [] text = "{}" -> [ok |-> TRUE, val |-> Obj]
      [] text = "[{\"name\":\"A\",\"polygon\":\"not json\"}]" ->
            [ok |-> TRUE, val |-> Arr(<<Item(Str("A"), Str("not json"), Undef)>>)]
      [] text = "[{\"name\":\"A\",\"polygon\":[{\"lat\":91,\"lng\":10}]}]" ->
            [ok |-> TRUE,
             val |-> Arr(<<Item(Str("A"),
                                Arr(<<Pt(Num(91), Undef, Num(10), Undef, Undef, Undef)>>),
                                Undef)>>)]
      [] text = "[{\"polygon\":[]}]" ->
            [ok |-> TRUE, val |-> Arr(<<Item(Undef, Arr(<<>>), Undef)>>)]
      [] OTHER -> [ok |-> FALSE, val |-> Undef]

\* parseFloat on the texts of the marker fields: the number of the longest
\* numeric prefix, NaN when there is none.
ParseFloat(text) ==
    CASE text = "0" -> [nan |-> FALSE, n |-> 0]
      [] text = "10" -> [nan |-> FALSE, n |-> 10 * Unit]
      [] text = "12abc" -> [nan |-> FALSE, n |-> 12 * Unit]
      [] text = "90" -> [nan |-> FALSE, n |-> 90 * Unit]
      [] text = "90.0001" -> [nan |-> FALSE, n |-> 90 * Unit + 1]
      [] text = "-90" -> [nan |-> FALSE, n |-> -90 * Unit]
      [] text = "-90.0001" -> [nan |-> FALSE, n |-> -90 * Unit - 1]
      [] text = "180" -> [nan |-> FALSE, n |-> 180 * Unit]
      [] text = "180.0001" -> [nan |-> FALSE, n |-> 180 * Unit + 1]
      [] text = "-180" -> [nan |-> FALSE, n |-> -180 * Unit]
      [] text = "-180.0001" -> [nan |-> FALSE, n |-> -180 * Unit - 1]
      [] OTHER -> [nan |-> TRUE, n |-> 0]

\* The marker loop with the limits of the ranges excluded.
MarkerError_Exclusive(marker, i) ==
    LET lat == ParseFloat(marker.lat)
        lng == ParseFloat(marker.lng)
    IN  IF marker.lat = "" \/ marker.lng = "" \/ lat.nan \/ lng.nan
        THEN "Marker " \o ToString(i)
             \o ": Please provide valid latitude and longitude values"
        ELSE IF lat.n <= -90 * Unit \/ lat.n >= 90 * Unit
        THEN "Marker " \o ToString(i)
             \o ": Latitude must be between -90 and 90 degrees"
        ELSE IF lng.n <= -180 * Unit \/ lng.n >= 180 * Unit
        THEN "Marker " \o ToString(i)
             \o ": Longitude must be between -180 and 180 degrees"
        ELSE ""

\* The error the marker loop throws for marker i (1-based), "" for none.
MarkerError(marker, i) ==
    LET lat == ParseFloat(marker.lat)
        lng == ParseFloat(marker.lng)
    IN  IF marker.lat = "" \/ marker.lng = "" \/ lat.nan \/ lng.nan
        THEN "Marker " \o ToString(i)
             \o ": Please provide valid latitude and longitude values"
        ELSE IF lat.n < -90 * Unit \/ lat.n > 90 * Unit
        THEN "Marker " \o ToString(i)
             \o ": Latitude must be between -90 and 90 degrees"
        ELSE IF lng.n < -180 * Unit \/ lng.n > 180 * Unit
        THEN "Marker " \o ToString(i)
             \o ": Longitude must be between -180 and 180 degrees"
        ELSE ""

\* "Validate markers if includeMarkers is enabled": the error of the first
\* marker that has one, from marker i on.
RECURSIVE MarkerGateFrom(_, _)
MarkerGateFrom(markers, i) ==
    IF i > Len(markers)
    THEN ""
    ELSE IF MarkerError(markers[i], i) # ""
    THEN MarkerError(markers[i], i)
    ELSE MarkerGateFrom(markers, i + 1)

\* The gate looking at the first marker only.
MarkerGate_FirstOnly(includeMarkers, markers) ==
    IF includeMarkers /\ Len(markers) > 0 THEN MarkerError(markers[1], 1) ELSE ""

MarkerGate(includeMarkers, markers) ==
    IF includeMarkers /\ Len(markers) > 0 THEN MarkerGateFrom(markers, 1) ELSE ""

\* JSON.stringify of parseFloat(text): NaN is written as null.
FloatValue(text) ==
    IF ParseFloat(text).nan THEN Null ELSE Frac(ParseFloat(text).n)

\* The body of the fetch.
RequestBody(parsedData, includeMarkers, markers) ==
    Request(parsedData, Bool(includeMarkers),
            Arr(IF includeMarkers
                THEN [i \in 1..Len(markers) |->
                        Marker(FloatValue(markers[i].lat),
                               FloatValue(markers[i].lng),
                               Str(IF markers[i].name # ""
                                   THEN markers[i].name
                                   ELSE "Custom Marker"))]
                ELSE <<>>))

\* The output read from a body that is the FeatureCollection itself.
ShownOutput_Bare(resp) ==
    IF "type" \in resp.keys THEN <<resp.geojson>> ELSE <<>>

\* setOutputData(JSON.stringify(responseData.geojson, null, 2)): <<geojson>>
\* stands for the text of the FeatureCollection, <<>> for no text (the body
\* has no key geojson).
ShownOutput(resp) ==
    IF "geojson" \in resp.keys THEN <<resp.geojson>> ELSE <<>>

\* `responseData.warnings && responseData.warnings.length > 0`: the warnings
\* shown, recorded being the list the body carries under the key warnings.
ShownWarnings(resp, recorded) ==
    IF "warnings" \in resp.keys /\ Len(recorded) > 0 THEN recorded ELSE <<>>

\* The title of a warning: the custom-marker text for featureIndex -1, the
\* feature text with the name of the feature otherwise.
WarningTitle(warning) ==
    IF warning.featureIndex = -1
    THEN <<"t.warningCustomMarker">>
    ELSE <<"t.warningFeature", warning.featureName>>

\* The coordinate line of a warning (its one-based coordinate number and the
\* coordinate), shown unless coordinateIndex is -1.
WarningCoordinateLine(warning) ==
    IF warning.coordinateIndex # -1
    THEN <<warning.coordinateIndex + 1, warning.coordinate>>
    ELSE <<>>

\* The text of the badge of a warning: the chain of conditionals on
\* warning.issue, t.warningInvalidJson being its last branch.
IssueBadge(issue) ==
    IF issue = "both_invalid" THEN "t.warningBothInvalid"
    ELSE IF issue = "invalid_latitude" THEN "t.warningInvalidLatitude"
    ELSE IF issue = "invalid_longitude" THEN "t.warningInvalidLongitude"
    ELSE "t.warningInvalidJson"

\* The error handleConvert sets before any request is sent, "" for none.
\* The texts of the locale are not among the sources: t.key stands for them.
ClientError(inputData, includeMarkers, markers) ==
    IF Trim(inputData) = ""
    THEN "t.pleaseEnterJsonData"
    ELSE IF ~ParseInput(inputData).ok
    THEN "JSON Syntax Error"
    ELSE MarkerGate(includeMarkers, markers)

(***************************************************************************)
(* Bounds and the requests of the model.                                   *)
(***************************************************************************)
\* stations of a flat batch
MaxStations == 3

\* groups of a nested batch
MaxAreas == 2

\* stations of one area_list
MaxAreaStations == 2

\* points of a polygon given point by point
MaxPoints == 3

\* custom markers
MaxMarkers == 2

\* invocations of the handler in one server process
MaxInvocations == 2

\* All sequences over S of length at most n.
SeqUpTo(S, n) == UNION {[1..k -> S] : k \in 0..n}

\* Points for rings: two spellings of the same coordinate, a second
\* coordinate, a point with no field pair, a point with a non-numeric value,
\* a point with a numeric text.
RingPoints ==
    {Pt(Num(0), Num(1), Undef, Undef, Undef, Undef),
     Pt(Undef, Undef, Undef, Num(0), Num(1), Undef),
     Pt(Num(1), Undef, Undef, Undef, Undef, Num(1)),
     Pt(Num(1), Undef, Undef, Undef, Undef, Undef),
     Pt(Str("abc"), Undef, Num(0), Undef, Undef, Undef),
     Pt(Str("1"), Undef, Undef, Undef, Undef, Num(0))}

\* Points for field precedence: every subset of the six fields, each field
\* with a value of its own.
PrecedencePoints ==
    {Pt(lat, long, lng, latitude, longitude, lon) :
        lat \in {Undef, Num(1)}, long \in {Undef, Num(2)},
        lng \in {Undef, Num(3)}, latitude \in {Undef, Num(4)},
        longitude \in {Undef, Num(5)}, lon \in {Undef, Num(6)}}

\* Points for coordinate validation: latitudes and longitudes at and beyond
\* the limits of their ranges, as numbers and as texts, and a text that is
\* no number.
LatValues ==
    {Num(0), Num(90), Frac(90 * Unit + 1), Num(91), Num(-90),
     Frac(-90 * Unit - 1), Num(200), Str("90"), Str("90.0001"), Str("abc")}

LngValues ==
    {Num(10), Num(180), Frac(180 * Unit + 1), Num(-180), Frac(-180 * Unit - 1),
     Str("abc")}

ValidationPoints ==
    {Pt(lat, Undef, lng, Undef, Undef, Undef) : lat \in LatValues, lng \in LngValues}

OpenSquare ==
    Arr(<<Pt(Num(0), Num(0), Undef, Undef, Undef, Undef),
          Pt(Num(0), Num(1), Undef, Undef, Undef, Undef),
          Pt(Num(1), Num(1), Undef, Undef, Undef, Undef),
          Pt(Num(1), Num(0), Undef, Undef, Undef, Undef)>>)

PartlyUnmatched ==
    Arr(<<Pt(Num(0), Num(1), Undef, Undef, Undef, Undef),
          Pt(Num(1), Undef, Undef, Undef, Undef, Undef)>>)

PolygonTexts ==
    {"not json", "[]", "{}", "null", "[{\"lat\":0,\"long\":1}]",
     "[{\"lat\":0,\"long\":1},{\"lat\":1,\"lng\":1}]", "[{\"x\":0,\"y\":1}]"}

\* Feature-like objects of flat batches.
FlatStations ==
    {Item(name, polygon, Undef) :
        name \in {Str("A"), Str("B")},
        polygon \in {OpenSquare, PartlyUnmatched, Str("not json")}}
    \cup {Item(name, OpenSquare, Undef) : name \in {Undef, Str("")}}
    \cup {Item(Str("A"), polygon, Undef) : polygon \in {Undef, Str("")}}

\* Feature-like objects of nested batches.
NestedStations ==
    {Item(Str("A"), OpenSquare, Undef),
     Item(Str("B"), Str("not json"), Undef),
     Item(Undef, OpenSquare, Undef),
     Item(Str("B"), Null, Undef)}

\* The lists an area_list holds: at most one entry of a list is not the
\* first (well-formed, convertible) entry of NestedStations.
GoodStation == Item(Str("A"), OpenSquare, Undef)

AreaLists ==
    {list \in SeqUpTo(NestedStations, MaxAreaStations) :
        Cardinality({i \in 1..Len(list) : list[i] # GoodStation}) <= 1}

\* Top-level elements of nested batches: groups with an array-valued
\* area_list, and elements whose area_list is absent or no array.
Areas ==
    {Item(Undef, Undef, Arr(list)) : list \in AreaLists}
    \cup {Item(Str("A"), OpenSquare, Undef),
          Item(Undef, Undef, Undef),
          Item(Undef, Undef, Null),
          Item(Undef, Undef, Str("none"))}

Markers ==
    {Marker(Num(1), Num(2), Str("M")),
     Marker(Num(200), Num(10), Str("Bad"))}

BatchRequests ==
    {Request(Arr(stations), Undef, Undef) : stations \in SeqUpTo(FlatStations, MaxStations)}
    \cup {Request(Arr(areas), Undef, Undef) : areas \in SeqUpTo(Areas, MaxAreas)}

\* One feature with every polygon over RingPoints or PolygonTexts, flat and
\* wrapped in a group.
FeaturePolygons ==
    {Arr(points) : points \in SeqUpTo(RingPoints, MaxPoints)}
    \cup {Arr(<<point>>) : point \in PrecedencePoints}
    \cup {Arr(<<point>>) : point \in ValidationPoints}
    \cup {Arr(<<Pt(Num(1), Num(1), Undef, Undef, Undef, Undef), point>>) :
            point \in ValidationPoints}
    \cup {Str(text) : text \in PolygonTexts}
    \cup {Obj, Num(5)}

FeatureRequests ==
    {Request(Arr(<<Item(name, polygon, Undef)>>), Undef, Undef) :
        name \in {Str("A"), Str("B")}, polygon \in FeaturePolygons}
    \cup {Request(Arr(<<Item(Undef, Undef, Arr(<<Item(Str("A"), polygon, Undef)>>))>>),
                  Undef, Undef) : polygon \in FeaturePolygons}

MarkerData ==
    {Undef, Null, Obj, Str("[]"), Num(1),
     Arr(<<>>),
     Arr(<<Item(Str("A"), OpenSquare, Undef)>>),
     Arr(<<Item(Undef, OpenSquare, Undef)>>),
     Arr(<<Item(Undef, Undef, Arr(<<Item(Str("A"), OpenSquare, Undef)>>))>>)}

MarkerRequests ==
    {Request(data, includeMarkers, markers) :
        data \in MarkerData,
        includeMarkers \in {Undef, Bool(FALSE), Bool(TRUE)},
        markers \in {Undef} \cup {Arr(list) : list \in SeqUpTo(Markers, MaxMarkers)}}

\* Polygons that pass the structural gate and resolve to no non-empty list.
UnresolvedPolygons ==
    {Obj, Num(5), Bool(TRUE), Arr(<<>>),
     Str("{}"), Str("null"), Str("5"), Str("[]")}

\* Such a feature between two convertible ones, flat and in a group.
UnresolvedRequests ==
    {Request(Arr(<<GoodStation, Item(Str("B"), polygon, Undef), GoodStation>>),
             Undef, Undef) : polygon \in UnresolvedPolygons}
    \cup {Request(Arr(<<Item(Undef, Undef,
                            Arr(<<GoodStation, Item(Str("B"), polygon, Undef),
                                  GoodStation>>))>>),
                  Undef, Undef) : polygon \in UnresolvedPolygons}

\* Markers whose name is blank or absent, alone and after a named one.
UnnamedMarkers ==
    {Marker(Num(1), Num(2), Str("")), Marker(Num(1), Num(2), Undef)}

UnnamedMarkerRequests ==
    {Request(Arr(<<>>), Bool(TRUE), Arr(list)) :
        list \in {<<m>> : m \in UnnamedMarkers}
                 \cup {<<Marker(Num(1), Num(2), Str("M")), m>> : m \in UnnamedMarkers}}

\* A marker after a feature whose polygon fails to decode, or one of whose
\* points matches no field pair.
ThrowingStationRequests ==
    {Request(Arr(<<Item(Str("A"), polygon, Undef)>>), Bool(TRUE),
             Arr(<<Marker(Num(1), Num(2), Str("M"))>>)) :
        polygon \in {Str("not json"),
                     Arr(<<Pt(Num(0), Undef, Undef, Undef, Undef, Undef)>>)}}

Requests ==
    BatchRequests \cup FeatureRequests \cup MarkerRequests
    \cup UnresolvedRequests \cup UnnamedMarkerRequests
    \cup ThrowingStationRequests \cup {MalformedRequest}

\* Requests with a null where the handler reads a property: a null element,
\* a null entry of an area_list, null for markers.
FaultData ==
    {Arr(<<Item(Str("A"), OpenSquare, Undef), NullItem>>),
     Arr(<<NullItem, Item(Undef, Undef, Arr(<<Item(Str("A"), OpenSquare, Undef)>>))>>),
     Arr(<<Item(Undef, Undef, Arr(<<Item(Str("A"), OpenSquare, Undef)>>)), NullItem>>),
     Arr(<<Item(Undef, Undef, Arr(<<Item(Str("A"), OpenSquare, Undef), NullItem>>))>>),
     Arr(<<Item(Undef, Undef, Arr(<<Item(Undef, OpenSquare, Undef)>>)), NullItem>>),
     Arr(<<Item(Undef, Undef, Arr(<<NullItem, Item(Undef, OpenSquare, Undef)>>))>>)}

FaultRequests ==
    {Request(data, Undef, Undef) : data \in FaultData}
    \cup {Request(data, includeMarkers, Null) :
            data \in {Arr(<<Item(Str("A"), OpenSquare, Undef)>>),
                      Arr(<<Item(Undef, OpenSquare, Undef)>>)},
            includeMarkers \in {Undef, Bool(FALSE), Bool(TRUE)}}

\* Entries of the groups sent to the handler of route.ts.
AreaDataStations ==
    {Item(Str("A"), Str("[{\"lat\":0,\"long\":1},{\"lat\":1,\"lng\":1}]"), Undef),
     Item(Str("B"), Str("[{\"lat\":0,\"long\":1}]"), Undef),
     Item(Str("B"), Str("[{\"x\":0,\"y\":1}]"), Undef),
     Item(Str("B"), Str("not json"), Undef),
     Item(Undef, OpenSquare, Undef)}

\* At most one entry of a list is not the first entry of AreaDataStations.
AreaDataLists ==
    {list \in SeqUpTo(AreaDataStations, MaxAreaStations) :
        Cardinality({i \in 1..Len(list) :
            list[i] # Item(Str("A"),
                           Str("[{\"lat\":0,\"long\":1},{\"lat\":1,\"lng\":1}]"),
                           Undef)}) <= 1}

AreaDataAreas ==
    {Item(Undef, Undef, Arr(list)) : list \in AreaDataLists}
    \cup {Item(Str("A"), Str("[{\"lat\":0,\"long\":1}]"), Undef),
          Item(Undef, Undef, Null)}

AreaDataRequests ==
    {AreaDataRequest(Arr(areas), Undef, <<>>) : areas \in SeqUpTo(AreaDataAreas, MaxAreas)}
    \cup {AreaDataRequest(data, includeMarkers, markerData) :
            data \in MarkerData,
            includeMarkers \in {Undef, Bool(FALSE), Bool(TRUE)},
            markerData \in {<<>>} \cup {<<m>> : m \in Markers}}
    \cup {AreaDataRequest(Arr(<<>>), Bool(TRUE), <<m>>) : m \in UnnamedMarkers}
    \cup {MalformedRequest}

AreaDataFaultRequests ==
    {AreaDataRequest(Arr(areas), Undef, <<>>) :
        areas \in {<<NullItem>>,
                   <<Item(Str("x"), Undef, Arr(<<Item(Str("A"), Str("[{\"lat\":0,\"long\":1},{\"lat\":1,\"lng\":1}]"), Undef)>>)), NullItem>>,
                   <<Item(Str("x"), Undef, Arr(<<Item(Str("A"), Str("[{\"lat\":0,\"long\":1},{\"lat\":1,\"lng\":1}]"), Undef), NullItem>>))>>,
                   <<Item(Str("x"), Undef, Null), Item(Str("y"), Undef, Arr(<<NullItem>>))>>}}

\* Bodies that are a JSON array of area data, as the README describes the
\* body of the endpoint.
ArrayBodyRequests ==
    {ArrayBody(areas) :
        areas \in {<<Item(Undef, Undef, Arr(<<GoodStation>>))>>,
                   <<Item(Undef, Undef, Arr(<<Item(Str("A"), Str("[{\"lat\":0,\"long\":1},{\"lat\":1,\"lng\":1}]"), Undef)>>))>>}}

\* The requests of the invocations that share a process.
LatitudeNinetyOne == Arr(<<Pt(Num(91), Num(1), Undef, Undef, Undef, Undef)>>)

InvocationRequests ==
    {Request(Arr(<<GoodStation>>), Undef, Undef),
     Request(Arr(<<Item(Str("B"), LatitudeNinetyOne, Undef), GoodStation>>),
             Bool(TRUE), Arr(<<Marker(Num(200), Num(10), Str("Bad"))>>)),
     Request(Arr(<<Item(Undef, Undef, Arr(<<GoodStation>>)),
                   Item(Undef, Undef, Null),
                   Item(Undef, Undef, Arr(<<Item(Str("B"), LatitudeNinetyOne, Undef)>>))>>),
             Undef, Undef),
     Request(Arr(<<GoodStation, Item(Undef, Undef, Undef), Item(Str("A"), Undef, Undef)>>),
             Undef, Undef),
     Request(Arr(<<Item(Undef, Undef, Arr(<<GoodStation, Item(Str("A"), Undef, Undef)>>)),
                   Item(Undef, Undef, Arr(<<Item(Undef, OpenSquare, Undef)>>))>>),
             Undef, Undef),
     Request(Undef, Undef, Undef),
     MalformedRequest}

InvocationFaultRequests ==
    {Request(Arr(<<Item(Undef, Undef, Arr(<<GoodStation>>)), NullItem>>), Undef, Undef),
     Request(Arr(<<GoodStation>>), Bool(TRUE), Null)}

\* The form of the page: texts of the input box and of the marker fields.
PageInputs ==
    {"", "  ", "not json", "[]", "{}",
     "[{\"name\":\"A\",\"polygon\":\"not json\"}]",
     "[{\"name\":\"A\",\"polygon\":[{\"lat\":91,\"lng\":10}]}]",
     "[{\"polygon\":[]}]"}

PageLatTexts == {"", "abc", "0", "12abc", "90", "90.0001", "-90", "-90.0001"}

PageLngTexts == {"", "10", "180", "180.0001", "-180", "-180.0001"}

PageMarkers ==
    {PageMarker(lat, lng, name) :
        lat \in PageLatTexts, lng \in PageLngTexts, name \in {"", "M"}}

GoodPageMarker == PageMarker("0", "10", "M")

\* Marker lists in which at most one marker is not GoodPageMarker.
PageMarkerLists ==
    {<<>>} \cup
    {[i \in 1..n |-> IF i = k THEN m ELSE GoodPageMarker] :
        n \in 1..MaxMarkers, k \in 1..MaxMarkers, m \in PageMarkers}

(***************************************************************************)
(* The state machine: one invocation of one of the handlers, called        *)
(* directly or by the page.                                                *)
(***************************************************************************)
NoResponse == ErrorResponse(-1, "")

Invocations == 1..MaxInvocations

\* An invocation that has not been made.
IdleCall ==
    [pc |-> "idle", handler |-> "none", request |-> MalformedRequest,
     validated |-> 0, processed |-> 0, features |-> <<>>, warnings |-> <<>>,
     response |-> NoResponse]

Init ==
    /\ calls = [n \in Invocations |-> IdleCall]
    /\ running = 0
    /\ pc = "idle"
    /\ handler = "none"
    /\ request = MalformedRequest
    /\ shape = "none"
    /\ response = NoResponse
    /\ warnings = <<>>
    /\ form = [inputData |-> "", includeMarkers |-> FALSE, markers |-> <<>>]
    /\ loading = FALSE
    /\ error = ""
    /\ outputData = <<>>
    /\ validationWarnings = <<>>

\* export async function POST(request: NextRequest)
POST(req) ==
    /\ pc = "idle"
    /\ pc' = "responded"
    /\ handler' = "POST"
    /\ request' = req
    /\ shape' = ShapeOf(req)
    /\ response' = Respond(req)
    /\ UNCHANGED <<warnings, pageVars, invocationVars>>

\* The invocation of the warnings-aware revision.
POST_WarningsAware(req) ==
    /\ pc = "idle"
    /\ pc' = "responded"
    /\ handler' = "POST_WarningsAware"
    /\ request' = req
    /\ shape' = ShapeOf(req)
    /\ response' = WarningsAwareRespond(req)
    /\ warnings' = RecordedWarnings(req)
    /\ UNCHANGED <<pageVars, invocationVars>>

\* export async function POST(request: NextRequest) of route.ts
POST_AreaData(req) ==
    /\ pc = "idle"
    /\ pc' = "responded"
    /\ handler' = "POST_AreaData"
    /\ request' = req
    /\ response' = AreaDataRespond(req)
    /\ UNCHANGED <<shape, warnings, pageVars, invocationVars>>

\* const handleConvert = async () => { ... up to the call of fetch, on the
\* form as the user left it (the button is disabled while loading).  An
\* empty input sets the error and returns before anything is reset;
\* otherwise the output and the warnings are reset and the form is checked:
\* an error ends the handler (catch, finally), otherwise the request is sent.
handleConvert(inputData, includeMarkers, markers) ==
    /\ pc \in {"idle", "settled"}
    /\ ~loading
    /\ form' = [inputData |-> inputData, includeMarkers |-> includeMarkers,
                markers |-> markers]
    /\ error' = ClientError(inputData, includeMarkers, markers)
    /\ IF Trim(inputData) = ""
       THEN /\ pc' = "settled"
            /\ UNCHANGED <<loading, outputData, validationWarnings, request>>
       ELSE /\ outputData' = <<>>
            /\ validationWarnings' = <<>>
            /\ IF ClientError(inputData, includeMarkers, markers) # ""
               THEN /\ pc' = "settled"
                    /\ loading' = FALSE
                    /\ UNCHANGED request
               ELSE /\ pc' = "fetching"
                    /\ loading' = TRUE
                    /\ request' = RequestBody(ParseInput(inputData).val,
                                              includeMarkers, markers)
    /\ UNCHANGED <<handler, shape, response, warnings, invocationVars>>

\* await fetch('/api/convert', ...): the route answers the request of the page.
Fetch ==
    /\ pc = "fetching"
    /\ pc' = "fetched"
    /\ handler' = "POST_WarningsAware"
    /\ shape' = ShapeOf(request)
    /\ response' = WarningsAwareRespond(request)
    /\ warnings' = RecordedWarnings(request)
    /\ UNCHANGED <<request, pageVars, invocationVars>>

\* await fetch(...) rejects (no answer): catch, finally.
FetchRejects ==
    /\ pc = "fetching"
    /\ pc' = "settled"
    /\ error' = "Failed to fetch"
    /\ loading' = FALSE
    /\ UNCHANGED <<handler, request, shape, response, warnings, form,
                   outputData, validationWarnings, invocationVars>>

\* handleConvert after the answer with setLoading(false) after the output
\* instead of in a finally block: the throw for an answer that is not OK
\* skips it.
handleConvert_Response_NoFinally ==
    /\ pc = "fetched"
    /\ pc' = "settled"
    /\ IF response.status # 200
       THEN /\ error' = (IF response.error # ""
                         THEN response.error
                         ELSE "t.failedToConvertData")
            /\ UNCHANGED <<outputData, validationWarnings, loading>>
       ELSE /\ outputData' = ShownOutput(response)
            /\ validationWarnings' = ShownWarnings(response, warnings)
            /\ loading' = FALSE
            /\ UNCHANGED error
    /\ UNCHANGED <<handler, request, shape, response, warnings, form,
                   invocationVars>>

\* handleConvert after the answer: `if (!response.ok) throw ...`, the output,
\* the warnings, finally.
handleConvert_Response ==
    /\ pc = "fetched"
    /\ pc' = "settled"
    /\ loading' = FALSE
    /\ IF response.status # 200
       THEN /\ error' = (IF response.error # ""
                         THEN response.error
                         ELSE "t.failedToConvertData")
            /\ UNCHANGED <<outputData, validationWarnings>>
       ELSE /\ outputData' = ShownOutput(response)
            /\ validationWarnings' = ShownWarnings(response, warnings)
            /\ UNCHANGED error
    /\ UNCHANGED <<handler, request, shape, response, warnings, form,
                   invocationVars>>

Next ==
    \/ /\ pc = "idle"
       /\ \/ \E req \in Requests \cup FaultRequests \cup ArrayBodyRequests :
                POST(req)
          \/ \E req \in AreaDataRequests \cup AreaDataFaultRequests
                        \cup ArrayBodyRequests :
                POST_AreaData(req)
          \/ \E req \in Requests : POST_WarningsAware(req)
          \/ \E inputData \in PageInputs, includeMarkers \in BOOLEAN,
                markers \in PageMarkerLists :
                handleConvert(inputData, includeMarkers, markers)
    \/ Fetch
    \/ FetchRejects
    \/ handleConvert_Response

Spec == Init /\ [][Next]_vars

(***************************************************************************)
(* The page over several attempts: the user edits the form and presses     *)
(* the convert button again once an attempt has ended.                     *)
(***************************************************************************)
\* The marker lists of the form between the attempts.
EditedMarkerLists ==
    {<<>>, <<GoodPageMarker>>, <<PageMarker("90.0001", "10", "M")>>,
     <<GoodPageMarker, PageMarker("", "10", "")>>}

PageNext ==
    \/ \E inputData \in PageInputs, includeMarkers \in BOOLEAN,
          markers \in EditedMarkerLists :
          handleConvert(inputData, includeMarkers, markers)
    \/ Fetch
    \/ FetchRejects
    \/ handleConvert_Response

\* The promise of fetch settles (it resolves or it rejects), and the handler
\* is resumed after it.
PageSpec ==
    /\ Init
    /\ [][PageNext]_vars
    /\ WF_vars(Fetch \/ FetchRejects)
    /\ WF_vars(handleConvert_Response)

(***************************************************************************)
(* The handler step by step, several invocations in one process.  An       *)
(* invocation runs up to `await request.json()` when it is made; the rest, *)
(* which has no await, runs without another invocation in between: the     *)
(* steps below belong to the invocation named by running.                  *)
(***************************************************************************)
\* One stop of the two loops over the data: the station at index i (flat), the
\* entry j of the area_list of element i (nested), or a null element i of a
\* nested batch, at which `area.area_list` throws.  Indices are 1-based.
Visit(kind, i, j, item) == [kind |-> kind, i |-> i, j |-> j, item |-> item]

\* The stops at one element of a nested batch: none when it is skipped.
AreaVisits(area, i) ==
    IF area.null
    THEN <<Visit("area", i, 0, area)>>
    ELSE IF SkipArea(area)
    THEN <<>>
    ELSE [j \in 1..Len(area.area_list.a) |->
            Visit("station", i, j, area.area_list.a[j])]

RECURSIVE NestedVisitsFrom(_, _)
NestedVisitsFrom(areas, i) ==
    IF i > Len(areas)
    THEN <<>>
    ELSE AreaVisits(areas[i], i) \o NestedVisitsFrom(areas, i + 1)

\* The stops of either loop of the taken branch, in the order of the loops.
Visits(data) ==
    IF IsSimpleArray(data)
    THEN [i \in 1..Len(data.a) |-> Visit("station", i, 0, data.a[i])]
    ELSE NestedVisitsFrom(data.a, 1)

\* One iteration of the validation loop of the taken branch: the response it
\* returns (or the outer catch, for a null), NoError when it goes on.
ValidateVisit(data, visit) ==
    IF visit.item.null
    THEN InternalError
    ELSE IF MissingField(visit.item) = ""
    THEN NoError
    ELSE IF IsSimpleArray(data)
    THEN FlatMissingError(visit.i - 1, MissingField(visit.item))
    ELSE NestedMissingError(visit.i - 1, visit.j - 1, MissingField(visit.item))

\* The list an invocation pushes its features to, taken from an invocation
\* that has returned instead of created.
NewFeatures_ModuleLevel(all, n) ==
    IF \E m \in DOMAIN all : m # n /\ all[m].pc = "done"
    THEN all[CHOOSE m \in DOMAIN all : m # n /\ all[m].pc = "done"].features
    ELSE <<>>

\* const features: GeoJSONFeature[] = []
NewFeatures(all, n) == <<>>

\* The warnings list of an invocation of the warnings-aware revision: local
\* to the invocation, empty at its start.
NewWarnings(all, n) == <<>>

\* The call of POST, up to `await request.json()`.
Invoke(n, h, req) ==
    /\ running = 0
    /\ calls[n].pc = "idle"
    /\ calls' = [calls EXCEPT ![n] =
                    [IdleCall EXCEPT !.pc = "awaiting", !.handler = h,
                                     !.request = req]]
    /\ UNCHANGED running

\* The invocation returns: NextResponse.json(...).
Return(n, call, resp) ==
    /\ calls' = [calls EXCEPT ![n] = [call EXCEPT !.pc = "done",
                                                  !.response = resp]]
    /\ running' = 0

\* request.json() settles: the destructuring, the test of data, the features
\* list, the detection of the shape.
Resume(n) ==
    /\ running = 0
    /\ calls[n].pc = "awaiting"
    /\ LET req == calls[n].request
       IN  IF req.malformed
           THEN Return(n, calls[n], InternalError)
           ELSE IF ~IsArray(req.data)
           THEN Return(n, calls[n], ExpectedArrayError)
           ELSE IF DetectionThrows(req.data)
           THEN Return(n, [calls[n] EXCEPT !.features = NewFeatures(calls, n)],
                       InternalError)
           ELSE /\ calls' = [calls EXCEPT
                                ![n].pc = "validating",
                                ![n].features = NewFeatures(calls, n),
                                ![n].warnings = NewWarnings(calls, n)]
                /\ running' = n

\* One iteration of the validation loop that converts the feature as soon
\* as it has passed.
ValidateStep_SinglePass(n) ==
    /\ running = n
    /\ calls[n].pc = "validating"
    /\ LET call == calls[n]
           stops == Visits(call.request.data)
       IN  IF call.validated = Len(stops)
           THEN /\ calls' = [calls EXCEPT ![n].pc = "markers"]
                /\ UNCHANGED running
           ELSE IF ValidateVisit(call.request.data, stops[call.validated + 1]) # NoError
           THEN Return(n, call,
                       ValidateVisit(call.request.data, stops[call.validated + 1]))
           ELSE /\ calls' = [calls EXCEPT
                                ![n].validated = call.validated + 1,
                                ![n].processed = call.processed + 1,
                                ![n].features =
                                    call.features
                                    \o ProcessStation(stops[call.validated + 1].item)]
                /\ UNCHANGED running

\* "First, validate all stations have required fields": one iteration of the
\* loop (of the inner loop, for a nested batch), or its end.
ValidateStep(n) ==
    /\ running = n
    /\ calls[n].pc = "validating"
    /\ LET call == calls[n]
           stops == Visits(call.request.data)
       IN  IF call.validated = Len(stops)
           THEN /\ calls' = [calls EXCEPT ![n].pc = "processing"]
                /\ UNCHANGED running
           ELSE IF ValidateVisit(call.request.data, stops[call.validated + 1]) # NoError
           THEN Return(n, call,
                       ValidateVisit(call.request.data, stops[call.validated + 1]))
           ELSE /\ calls' = [calls EXCEPT ![n].validated = call.validated + 1]
                /\ UNCHANGED running

\* "Process all stations": one iteration of the loop, or its end.  The
\* warnings-aware revision converts with the validator and records the
\* warnings of the feature under the running index.
ProcessStep(n) ==
    /\ running = n
    /\ calls[n].pc = "processing"
    /\ LET call == calls[n]
           stops == Visits(call.request.data)
           station == stops[call.processed + 1].item
       IN  IF call.processed = Len(stops)
           THEN calls' = [calls EXCEPT ![n].pc = "markers"]
           ELSE IF call.handler = "POST_WarningsAware"
           THEN calls' = [calls EXCEPT
                            ![n].processed = call.processed + 1,
                            ![n].features = call.features \o ValidatedStation(station),
                            ![n].warnings =
                                call.warnings
                                \o StationWarnings(station, call.processed)]
           ELSE calls' = [calls EXCEPT
                            ![n].processed = call.processed + 1,
                            ![n].features = call.features \o ProcessStation(station)]
    /\ UNCHANGED running

\* "Add custom markers if requested", and the return of the answer.
MarkerStep(n) ==
    /\ running = n
    /\ calls[n].pc = "markers"
    /\ LET call == calls[n]
           req == call.request
       IN  IF call.handler = "POST_WarningsAware"
           THEN LET done == [call EXCEPT
                               !.features = call.features
                                            \o ValidatedMarkerFeatures(req),
                               !.warnings = call.warnings \o MarkerWarnings(req)]
                IN  Return(n, done, WarningsResponse(done.features, done.warnings))
           ELSE IF MarkersThrow(req)
           THEN Return(n, call, InternalError)
           ELSE LET done == [call EXCEPT
                               !.features = call.features \o MarkerFeatures(req)]
                IN  Return(n, done, GeojsonResponse(done.features))

InvocationHandlers == {"POST", "POST_WarningsAware"}

InvocationsNext ==
    /\ \/ \E n \in Invocations, h \in InvocationHandlers :
             \E req \in InvocationRequests
                         \cup (IF h = "POST" THEN InvocationFaultRequests ELSE {}) :
                Invoke(n, h, req)
       \/ \E n \in Invocations : Resume(n)
       \/ \E n \in Invocations : ValidateStep(n)
       \/ \E n \in Invocations : ProcessStep(n)
       \/ \E n \in Invocations : MarkerStep(n)
    /\ UNCHANGED <<pc, handler, request, shape, response, warnings, pageVars>>

InvocationsSpec == Init /\ [][InvocationsNext]_vars

(***************************************************************************)
(* Properties.                                                             *)
(***************************************************************************)
\* One of the handlers of the route has answered.
Responded == handler # "none"

\* The revisions that detect the shape and validate the structure.
GatedHandlers == {"POST", "POST_WarningsAware"}

\* The elements of the data array and the entries of its area_lists are
\* objects, and markers is not null: the request is one of the data model.
OfDataModel(req) ==
    /\ \A i \in 1..Len(req.data.a) :
          /\ ~req.data.a[i].null
          /\ \A j \in 1..Len(req.data.a[i].area_list.a) :
                ~req.data.a[i].area_list.a[j].null
    /\ req.markers # Null

\* One of them has answered a request that carries an array of objects as
\* data.
ArrayRequest ==
    /\ Responded
    /\ handler \in GatedHandlers
    /\ ~request.malformed
    /\ request.data.t = "arr"
    /\ OfDataModel(request)

\* Either handler has answered a request that carries an array of objects as
\* data.
ArrayAnswered ==
    /\ Responded
    /\ ~request.malformed
    /\ request.data.t = "arr"
    /\ OfDataModel(request)

Features == response.geojson.features

\* The response the handler that answered gives to a request.
ResponseOf(req) ==
    IF handler = "POST_WarningsAware" THEN WarningsAwareRespond(req)
    ELSE IF handler = "POST_AreaData" THEN AreaDataRespond(req)
    ELSE Respond(req)

\* A coordinate value as the handler that answered emits it: POST passes the
\* value of the field through, the warnings-aware revision its number.
Emitted(v) ==
    IF handler = "POST_WarningsAware" THEN Frac(Coerce(v).n) ELSE v

PolygonFeatures == SelectSeq(Features, LAMBDA f : f.geometry.type = "Polygon")

PointFeatures == SelectSeq(Features, LAMBDA f : f.geometry.type = "Point")

\* A feature-like object lacks a mandatory field (missing or falsy).
Lacks(station, field) ==
    IF field = "name" THEN ~Truthy(station.name) ELSE ~Truthy(station.polygon)

MandatoryFields == {"name", "polygon"}

\* The entries of the array-valued area_list of element i ({} when the
\* area_list is absent or no array).
EntryIndices(i) ==
    IF request.data.a[i].area_list.t = "arr"
    THEN 1..Len(request.data.a[i].area_list.a)
    ELSE {}

\* Some feature-like object reachable under the taken shape lacks a field.
FlatOffence ==
    \E i \in 1..Len(request.data.a) : \E f \in MandatoryFields :
        Lacks(request.data.a[i], f)

NestedOffence ==
    \E i \in 1..Len(request.data.a) : \E j \in EntryIndices(i) :
        \E f \in MandatoryFields : Lacks(request.data.a[i].area_list.a[j], f)

Offence ==
    \/ shape = "Flat" /\ FlatOffence
    \/ shape = "Nested" /\ NestedOffence

\* C1: structural gate.  When the data is an array and some feature-like
\* object reachable under the detected shape lacks name or polygon, the
\* response is a client error (400) whose text names a lacking field and the
\* position of its feature (index i, or area[i].area_list[j]), and it carries
\* no feature at all.
C1_StructuralGate ==
    (ArrayRequest /\ Offence) =>
        /\ response.status = 400
        /\ response.geojson = NoGeojson
        /\ Features = <<>>
        /\ \/ /\ shape = "Flat"
              /\ \E i \in 1..Len(request.data.a) : \E f \in MandatoryFields :
                    /\ Lacks(request.data.a[i], f)
                    /\ response.error = FlatMissingError(i - 1, f).error
           \/ /\ shape = "Nested"
              /\ \E i \in 1..Len(request.data.a) : \E j \in EntryIndices(i) :
                    \E f \in MandatoryFields :
                        /\ Lacks(request.data.a[i].area_list.a[j], f)
                        /\ response.error = NestedMissingError(i - 1, j - 1, f).error

\* A flat batch of three whose second feature lacks its name while the first
\* is convertible has been rejected.
C1_Witness ==
    /\ ArrayRequest
    /\ shape = "Flat"
    /\ Len(request.data.a) = 3
    /\ request.data.a[1] = GoodStation
    /\ Lacks(request.data.a[2], "name")
    /\ response.status = 400
    /\ response.error = "Station at index 1: Missing required 'name' field"

\* The 'expected an array' text of the handler that answered.
ExpectedArrayText ==
    IF handler = "POST_AreaData"
    THEN "Invalid input: Expected an array of area data"
    ELSE "Invalid input: Expected an array of station data or area data"

\* C2: when the data of a request is not an array (absent included), the
\* response of either handler is its 'expected an array' client error, with
\* no FeatureCollection, whatever includeMarkers and the markers hold.
C2_ExpectedArray ==
    (Responded /\ ~request.malformed /\ request.data.t # "arr") =>
        /\ response.status = 400
        /\ response.error = ExpectedArrayText
        /\ response.geojson = NoGeojson

\* A request without data that asks for markers and supplies some has been
\* rejected.
C2_Witness ==
    /\ Responded
    /\ handler = "POST"
    /\ ~request.malformed
    /\ request.data.t = "undefined"
    /\ request.includeMarkers = Bool(TRUE)
    /\ request.markers.t = "arr"
    /\ Len(request.markers.a) > 0
    /\ response.status = 400

\* Some element of the data array has a key named area_list.
SomeAreaListKey ==
    \E i \in 1..Len(request.data.a) : request.data.a[i].area_list.t # "undefined"

\* C3 as stated: the batch is interpreted as Nested if and only if the array
\* is non-empty and some element has the key area_list, and as Flat in every
\* other case, the empty array included.
C3_Original ==
    ArrayRequest =>
        /\ shape = "Nested" <=> (Len(request.data.a) > 0 /\ SomeAreaListKey)
        /\ shape = "Flat" <=> ~(Len(request.data.a) > 0 /\ SomeAreaListKey)

\* C3 amended: the batch is interpreted as Flat if and only if the array is
\* non-empty and no element has the key area_list; in every other case (some
\* element has the key, whatever the other elements look like, or the array
\* is empty) it is interpreted as Nested.
C3_ShapeDetection ==
    ArrayRequest =>
        /\ shape = "Flat" <=> (Len(request.data.a) > 0 /\ ~SomeAreaListKey)
        /\ shape = "Nested" <=> (Len(request.data.a) = 0 \/ SomeAreaListKey)

\* A batch mixing an element with the key (non-array value) and a flat-looking
\* element without it has been taken as Nested.
C3_Witness ==
    /\ ArrayRequest
    /\ Len(request.data.a) = 2
    /\ request.data.a[1] = GoodStation
    /\ request.data.a[2].area_list = Null
    /\ shape = "Nested"

\* C4: a request whose data is the empty array succeeds, under either
\* handler, with a FeatureCollection without any Polygon feature, and without
\* an error.
C4_EmptyArray ==
    (ArrayAnswered /\ Len(request.data.a) = 0) =>
        /\ response.status = 200
        /\ response.error = ""
        /\ response.geojson.type = "FeatureCollection"
        /\ PolygonFeatures = <<>>

\* An empty batch that asks for two markers has been answered with the two
\* Point features only.
C4_Witness ==
    /\ ArrayRequest
    /\ Len(request.data.a) = 0
    /\ request.includeMarkers = Bool(TRUE)
    /\ response.status = 200
    /\ Len(Features) = 2
    /\ PolygonFeatures = <<>>

(***************************************************************************)
(* Features in traversal order, and what the written specification         *)
(* expects of each.                                                        *)
(***************************************************************************)
\* The feature-like objects the taken branch walks, in traversal order.
Walked == ReachableStations(request.data)

\* The recognized field pairs (latitude field, longitude field) in their
\* fixed order.
FieldPairs ==
    <<<<"lat", "long">>, <<"lat", "lng">>,
      <<"latitude", "longitude">>, <<"lat", "lon">>>>

PairMatches(point, k) ==
    point[FieldPairs[k][1]] # Undef /\ point[FieldPairs[k][2]] # Undef

Recognized(point) == \E k \in 1..Len(FieldPairs) : PairMatches(point, k)

FirstPair(point) ==
    CHOOSE k \in 1..Len(FieldPairs) :
        PairMatches(point, k) /\ \A m \in 1..(k - 1) : ~PairMatches(point, m)

\* [longitude, latitude] by the first matching pair.
LngLat(point) ==
    <<point[FieldPairs[FirstPair(point)][2]], point[FieldPairs[FirstPair(point)][1]]>>

\* The textual polygon of the feature fails to decode.
FailsToDecode(station) ==
    station.polygon.t = "str" /\ ~JSONParse(station.polygon.s).ok

\* The list a polygon resolves to (<<>> when it resolves to no list).
ResolvedPoints(station) ==
    IF station.polygon.t = "arr" THEN station.polygon.a
    ELSE IF station.polygon.t = "str" /\ JSONParse(station.polygon.s).val.t = "arr"
    THEN JSONParse(station.polygon.s).val.a
    ELSE <<>>

\* Some point of the resolved polygon matches no recognized pair.
HasUnrecognizedPoint(station) ==
    \E i \in 1..Len(ResolvedPoints(station)) : ~Recognized(ResolvedPoints(station)[i])

\* The polygon resolves to a non-empty list of points that all match a pair.
Emits(station) ==
    ResolvedPoints(station) # <<>> /\ ~HasUnrecognizedPoint(station)

\* ... and every point is valid.
Survives(station) ==
    /\ Emits(station)
    /\ \A i \in 1..Len(ResolvedPoints(station)) :
          LET c == LngLat(ResolvedPoints(station)[i])
          IN  CoordinateIssue(c[2], c[1]) = ""

\* The position among the Polygon features of the feature of Walked[k].
PolygonPosition(k) == Cardinality({m \in 1..(k - 1) : Emits(Walked[m])}) + 1

\* The points in input order as [longitude, latitude], followed by a copy of
\* the first pair when the last pair is not equal to it.
ExpectedRing(points) ==
    LET m == [i \in 1..Len(points) |->
                <<Emitted(LngLat(points[i])[1]), Emitted(LngLat(points[i])[2])>>]
    IN  IF m[1] = m[Len(m)] THEN m ELSE Append(m, m[1])

\* C5: every input feature that survives (its polygon resolves to a non-empty
\* list whose points all match a recognized pair and are valid) emits exactly
\* one Polygon feature, at its place among the Polygon features, named as the
\* feature, with the single ring ExpectedRing; and no warning is recorded for
\* it.
C5_SurvivingFeature ==
    (ArrayRequest /\ ~Offence) =>
        /\ response.status = 200
        /\ Len(PolygonFeatures)
              = Cardinality({k \in 1..Len(Walked) : Emits(Walked[k])})
        /\ \A k \in 1..Len(Walked) :
              Survives(Walked[k]) =>
                  /\ PolygonFeatures[PolygonPosition(k)]
                        = [type |-> "Feature",
                           properties |-> [name |-> Walked[k].name],
                           geometry |->
                               [type |-> "Polygon",
                                coordinates |->
                                    <<ExpectedRing(ResolvedPoints(Walked[k]))>>]]
                  /\ \A w \in 1..Len(warnings) : warnings[w].featureIndex # k - 1

\* The square of the end-to-end example has been converted to its closed
\* ring [[0,0],[1,0],[1,1],[0,1],[0,0]] after a feature that emits nothing.
C5_Witness ==
    /\ ArrayRequest
    /\ shape = "Flat"
    /\ Len(Walked) = 2
    /\ FailsToDecode(Walked[1])
    /\ Walked[2].polygon = OpenSquare
    /\ Len(PolygonFeatures) = 1
    /\ PolygonFeatures[1].properties.name = Str("B")
    /\ PolygonFeatures[1].geometry.coordinates
          = <<<<<<Num(0), Num(0)>>, <<Num(1), Num(0)>>, <<Num(1), Num(1)>>,
                <<Num(0), Num(1)>>, <<Num(0), Num(0)>>>>>>

\* Both components of the pair are numbers.
NumberPair(pair) == pair[1].t = "num" /\ pair[2].t = "num"

\* C6: in every successful response of either handler every Polygon feature
\* has exactly one ring, the ring holds at least one pair, and its first pair
\* equals its last pair whenever both are pairs of numbers.
C6_RingInvariant ==
    (Responded /\ response.status = 200) =>
        \A f \in 1..Len(PolygonFeatures) :
            LET rings == PolygonFeatures[f].geometry.coordinates
            IN  /\ Len(rings) = 1
                /\ Len(rings[1]) >= 1
                /\ (NumberPair(rings[1][1]) /\ NumberPair(rings[1][Len(rings[1])]))
                      => rings[1][1] = rings[1][Len(rings[1])]

\* A polygon of two points with equal longitudes and different latitudes has
\* been emitted as a closed ring of three pairs.
C6_Witness ==
    /\ ArrayRequest
    /\ Len(Walked) = 1
    /\ Len(ResolvedPoints(Walked[1])) = 2
    /\ Len(PolygonFeatures) = 1
    /\ LET ring == PolygonFeatures[1].geometry.coordinates[1]
       IN  /\ Len(ring) = 3
           /\ NumberPair(ring[1]) /\ NumberPair(ring[2])
           /\ ring[1][1] = ring[2][1]
           /\ ring[1][2] # ring[2][2]
           /\ ring[3] = ring[1]

\* C7: closing a ring twice gives what closing it once gives: every emitted
\* ring (the result of the ring closure) is left unchanged by the ring
\* closure, and so is the closure of the mapped points of every feature.
C7_CloseRingIdempotent ==
    (Responded /\ response.status = 200) =>
        /\ \A f \in 1..Len(PolygonFeatures) :
              CloseRing(PolygonFeatures[f].geometry.coordinates[1])
                  = PolygonFeatures[f].geometry.coordinates[1]
        /\ \A k \in 1..Len(Walked) :
              Emits(Walked[k]) =>
                  LET c == [i \in 1..Len(ResolvedPoints(Walked[k])) |->
                                LngLat(ResolvedPoints(Walked[k])[i])]
                  IN  CloseRing(CloseRing(c)) = CloseRing(c)

\* A polygon given as an already closed ring of three points has been emitted
\* with its three pairs and no fourth.
C7_Witness ==
    /\ ArrayRequest
    /\ Len(Walked) = 1
    /\ Len(ResolvedPoints(Walked[1])) = 3
    /\ Len(PolygonFeatures) = 1
    /\ LET ring == PolygonFeatures[1].geometry.coordinates[1]
       IN  /\ Len(ring) = 3
           /\ ring[1] = ring[3]
           /\ ring[1] # ring[2]

\* C8: every raw point of an emitted feature is resolved by the first
\* matching pair in the order (lat,long), (lat,lng), (latitude,longitude),
\* (lat,lon): the ring holds, at the place of the point, the longitude and
\* latitude fields of that pair, whatever the fields of later pairs hold.
C8_FieldPrecedence ==
    (ArrayRequest /\ ~Offence) =>
        \A k \in 1..Len(Walked) :
            Emits(Walked[k]) =>
                LET points == ResolvedPoints(Walked[k])
                    ring == PolygonFeatures[PolygonPosition(k)].geometry.coordinates[1]
                IN  /\ Len(ring) >= Len(points)
                    /\ \A i \in 1..Len(points) :
                          \A p \in 1..Len(FieldPairs) :
                              (PairMatches(points[i], p)
                                /\ \A q \in 1..(p - 1) : ~PairMatches(points[i], q))
                              => ring[i] = <<Emitted(points[i][FieldPairs[p][2]]),
                                             Emitted(points[i][FieldPairs[p][1]])>>

\* A point carrying lat, long and lng (and lon) has been resolved through
\* (lat, long): the emitted longitude is the value of long.
C8_Witness ==
    /\ ArrayRequest
    /\ Len(Walked) = 1
    /\ Len(ResolvedPoints(Walked[1])) = 1
    /\ ResolvedPoints(Walked[1])[1].lat = Num(1)
    /\ ResolvedPoints(Walked[1])[1].long = Num(2)
    /\ ResolvedPoints(Walked[1])[1].lng = Num(3)
    /\ ResolvedPoints(Walked[1])[1].lon = Num(6)
    /\ Len(PolygonFeatures) = 1
    /\ PolygonFeatures[1].geometry.coordinates[1][1] = <<Num(2), Num(1)>>

\* The sequence without its k-th element.
RemoveAt(seq, k) == SubSeq(seq, 1, k - 1) \o SubSeq(seq, k + 1, Len(seq))

\* The request without element k of its data.
WithoutElement(k) ==
    [request EXCEPT !.data.a = RemoveAt(@, k)]

\* The request without entry j of the area_list of element i.
WithoutEntry(i, j) ==
    [request EXCEPT !.data.a[i].area_list.a = RemoveAt(@, j)]

\* The running index of entry j of element i: the entries of the array-valued
\* area_lists before it.
RunningIndex(i, j) == Len(FlattenAreas(SubSeq(request.data.a, 1, i - 1))) + j - 1

\* The invalid_json warnings recorded for the feature at the position.
InvalidJsonWarnings(featureIndex) ==
    SelectSeq(warnings,
              LAMBDA w : w.issue = "invalid_json" /\ w.featureIndex = featureIndex)

\* The feature is left out: the request succeeds with the features of the
\* same request without it.
LeftOut(station, smaller) ==
    /\ response.status = 200
    /\ response.error = ""
    /\ Features = ResponseOf(smaller).geojson.features

\* Exactly one invalid_json warning is recorded for the feature, with its
\* name and no coordinate index.
OneInvalidJsonWarning(station, featureIndex) ==
    /\ Len(InvalidJsonWarnings(featureIndex)) = 1
    /\ InvalidJsonWarnings(featureIndex)[1].featureName = station.name
    /\ InvalidJsonWarnings(featureIndex)[1].coordinateIndex = -1

\* C9: when the textual polygon of a feature fails to decode (and the batch
\* passes the structural gate), the request succeeds, its features are those
\* of the same batch without the failing feature, and the revision that
\* records warnings records exactly one invalid_json warning with the
\* feature's position and name.
C9_DecodeFailureNonFatal ==
    (ArrayRequest /\ ~Offence) =>
        /\ shape = "Flat" =>
              \A k \in 1..Len(request.data.a) :
                  FailsToDecode(request.data.a[k]) =>
                      /\ LeftOut(request.data.a[k], WithoutElement(k))
                      /\ handler = "POST_WarningsAware" =>
                            OneInvalidJsonWarning(request.data.a[k], k - 1)
        /\ shape = "Nested" =>
              \A i \in 1..Len(request.data.a) : \A j \in EntryIndices(i) :
                  FailsToDecode(request.data.a[i].area_list.a[j]) =>
                      /\ LeftOut(request.data.a[i].area_list.a[j], WithoutEntry(i, j))
                      /\ handler = "POST_WarningsAware" =>
                            OneInvalidJsonWarning(request.data.a[i].area_list.a[j],
                                                  RunningIndex(i, j))

\* A flat batch of three whose first polygon is "not json" has been answered
\* with the two other features and one invalid_json warning naming the first.
C9_Witness ==
    /\ ArrayRequest
    /\ shape = "Flat"
    /\ Len(request.data.a) = 3
    /\ FailsToDecode(request.data.a[1])
    /\ response.status = 200
    /\ Len(PolygonFeatures) = 2
    /\ Len(warnings) = 1
    /\ warnings[1].issue = "invalid_json"
    /\ warnings[1].featureName = request.data.a[1].name

\* C10: when a point of the resolved polygon of a feature matches none of the
\* four pairs (and the batch passes the structural gate), the request
\* succeeds, no Polygon feature is emitted for that feature (no ring of its
\* earlier points either), and the features are those of the same batch
\* without it.
C10_UnrecognizedPointDropsFeature ==
    (ArrayRequest /\ ~Offence) =>
        /\ Len(PolygonFeatures)
              <= Cardinality({k \in 1..Len(Walked) : ~HasUnrecognizedPoint(Walked[k])})
        /\ shape = "Flat" =>
              \A k \in 1..Len(request.data.a) :
                  HasUnrecognizedPoint(request.data.a[k]) =>
                      LeftOut(request.data.a[k], WithoutElement(k))
        /\ shape = "Nested" =>
              \A i \in 1..Len(request.data.a) : \A j \in EntryIndices(i) :
                  HasUnrecognizedPoint(request.data.a[i].area_list.a[j]) =>
                      LeftOut(request.data.a[i].area_list.a[j], WithoutEntry(i, j))

\* A flat batch whose first polygon has a recognized point followed by an
\* unrecognized one has been answered with the features of the two others.
C10_Witness ==
    /\ ArrayRequest
    /\ shape = "Flat"
    /\ Len(request.data.a) = 3
    /\ request.data.a[1].polygon = PartlyUnmatched
    /\ Emits(request.data.a[2])
    /\ Emits(request.data.a[3])
    /\ response.status = 200
    /\ Len(PolygonFeatures) = 2
    /\ PolygonFeatures[1].properties.name = request.data.a[2].name

(***************************************************************************)
(* Coordinate validation.                                                  *)
(***************************************************************************)
\* The issue of a recognized point, "" when its values are valid.
Issue(point) == CoordinateIssue(LngLat(point)[2], LngLat(point)[1])

\* The warnings recorded for point coordinateIndex of feature featureIndex.
PointWarnings(featureIndex, coordinateIndex) ==
    SelectSeq(warnings,
              LAMBDA w : /\ w.featureIndex = featureIndex
                         /\ w.coordinateIndex = coordinateIndex)

\* C11: no feature is dropped because of the values of its coordinates: a
\* feature whose points all match a recognized pair emits its Polygon feature
\* (its name, one pair per point at least) whatever the values are, and the
\* revision that records warnings records exactly one warning for each point
\* whose values are not numeric or out of range.
C11_NoDropOnCoordinateValue ==
    (ArrayRequest /\ ~Offence) =>
        \A k \in 1..Len(Walked) :
            Emits(Walked[k]) =>
                /\ PolygonPosition(k) <= Len(PolygonFeatures)
                /\ PolygonFeatures[PolygonPosition(k)].properties.name
                      = Walked[k].name
                /\ Len(PolygonFeatures[PolygonPosition(k)].geometry.coordinates[1])
                      >= Len(ResolvedPoints(Walked[k]))
                /\ handler = "POST_WarningsAware" =>
                      \A i \in 1..Len(ResolvedPoints(Walked[k])) :
                          Issue(ResolvedPoints(Walked[k])[i]) # "" =>
                              /\ Len(PointWarnings(k - 1, i - 1)) = 1
                              /\ PointWarnings(k - 1, i - 1)[1].issue
                                    = Issue(ResolvedPoints(Walked[k])[i])

\* A feature of two points whose second has a text that is no number as its
\* latitude and a longitude beyond 180 has been emitted, with one warning for
\* that point.
C11_Witness ==
    /\ ArrayRequest
    /\ handler = "POST_WarningsAware"
    /\ Len(Walked) = 1
    /\ Len(ResolvedPoints(Walked[1])) = 2
    /\ ResolvedPoints(Walked[1])[2].lat = Str("abc")
    /\ ResolvedPoints(Walked[1])[2].lng = Frac(180 * Unit + 1)
    /\ Len(PolygonFeatures) = 1
    /\ Len(warnings) = 1
    /\ warnings[1].coordinateIndex = 1
    /\ warnings[1].issue = "invalid_latitude"

\* The number a component is emitted as: its numeric value when it coerces
\* (in range or not), 0 when it does not.
Substituted(v) == IF Coerce(v).ok THEN Coerce(v).n ELSE 0

ValidLatitude(n) == n >= -90 * Unit /\ n <= 90 * Unit

ValidLongitude(n) == n >= -180 * Unit /\ n <= 180 * Unit

\* The issue the ranges give to a pair of numbers, "" for none.
RangeIssue(lat, lng) ==
    IF ValidLatitude(lat) /\ ValidLongitude(lng) THEN ""
    ELSE IF ValidLongitude(lng) THEN "invalid_latitude"
    ELSE IF ValidLatitude(lat) THEN "invalid_longitude"
    ELSE "both_invalid"

\* handleConvert has just checked a form whose input decodes, with markers
\* to include whose fields all hold numbers.
MarkersChecked ==
    /\ pc = "fetching" \/ (pc = "settled" /\ handler = "none"
                               /\ error # "Failed to fetch")
    /\ Trim(form.inputData) # ""
    /\ ParseInput(form.inputData).ok
    /\ form.includeMarkers
    /\ Len(form.markers) > 0
    /\ \A i \in 1..Len(form.markers) :
          /\ form.markers[i].lat # "" /\ ~ParseFloat(form.markers[i].lat).nan
          /\ form.markers[i].lng # "" /\ ~ParseFloat(form.markers[i].lng).nan

\* The issue of marker i of the form under the ranges.
FormMarkerIssue(i) ==
    RangeIssue(ParseFloat(form.markers[i].lat).n, ParseFloat(form.markers[i].lng).n)

\* C13: the ranges are inclusive.  On the page, a form whose markers all
\* hold numbers is sent exactly when every latitude lies in [-90, 90] and
\* every longitude in [-180, 180]; otherwise the error names the latitude
\* or the longitude of the first marker out of range.  In the revision that
\* validates coordinates, a point whose two values are numbers has no
\* warning exactly when both lie in their ranges, and otherwise one warning
\* whose issue is invalid_latitude, invalid_longitude or both_invalid as the
\* latitude, the longitude or both lie beyond the limits.
C13_InclusiveRanges ==
    /\ MarkersChecked =>
          /\ pc = "fetching" <=> \A i \in 1..Len(form.markers) : FormMarkerIssue(i) = ""
          /\ pc = "fetching" => error = ""
          /\ \A i \in 1..Len(form.markers) :
                (FormMarkerIssue(i) # ""
                   /\ \A j \in 1..(i - 1) : FormMarkerIssue(j) = "") =>
                    error = "Marker " \o ToString(i) \o
                            (IF FormMarkerIssue(i) = "invalid_longitude"
                             THEN ": Longitude must be between -180 and 180 degrees"
                             ELSE ": Latitude must be between -90 and 90 degrees")
    /\ (ArrayRequest /\ ~Offence /\ handler = "POST_WarningsAware") =>
          \A k \in 1..Len(Walked) :
              Emits(Walked[k]) =>
                  \A i \in 1..Len(ResolvedPoints(Walked[k])) :
                      LET raw == LngLat(ResolvedPoints(Walked[k])[i])
                          recorded == PointWarnings(k - 1, i - 1)
                      IN  (raw[1].t = "num" /\ raw[2].t = "num") =>
                              IF RangeIssue(raw[2].n, raw[1].n) = ""
                              THEN recorded = <<>>
                              ELSE /\ Len(recorded) = 1
                                   /\ recorded[1].issue = RangeIssue(raw[2].n, raw[1].n)

\* The page has sent a marker at the limits (latitude 90, longitude -180)
\* and shown the answer: its Point feature and no warning.
C13_Witness ==
    /\ pc = "settled"
    /\ handler = "POST_WarningsAware"
    /\ form.includeMarkers
    /\ form.markers = <<PageMarker("90", "-180", "M")>>
    /\ response.status = 200
    /\ PointFeatures[1].geometry.coordinates = <<Num(-180), Num(90)>>
    /\ warnings = <<>>
    /\ validationWarnings = <<>>
    /\ error = ""

(***************************************************************************)
(* Markers.                                                                *)
(***************************************************************************)
\* The markers a successful answer had to include: those of the request when
\* includeMarkers is true and some marker is supplied (the one of markerData
\* for the handler of route.ts), none otherwise.
SuppliedMarkers ==
    IF request.includeMarkers # Bool(TRUE) THEN <<>>
    ELSE IF handler = "POST_AreaData" THEN request.markerData
    ELSE IF request.markers.t = "arr" THEN request.markers.a
    ELSE <<>>

\* The warnings attributed to no positional feature.
MarkerWarningsRecorded == SelectSeq(warnings, LAMBDA w : w.featureIndex = -1)

\* The supplied markers that fail the validation.
FailingMarkers ==
    SelectSeq(SuppliedMarkers, LAMBDA m : CoordinateIssue(m.lat, m.lng) # "")

\* C14: in a successful answer to a request with includeMarkers true and a
\* non-empty marker list, the Point features are one per supplied marker, in
\* order, with the coordinates [lng, lat] and, for a named marker, its name,
\* whether its values lie in the ranges or not; and the revision that records
\* warnings records one warning with featureIndex -1 for each marker that
\* fails the validation, with the issue of the failure, and no other.
C14_MarkerHandling ==
    (Responded /\ response.status = 200 /\ SuppliedMarkers # <<>>) =>
        /\ Len(PointFeatures) = Len(SuppliedMarkers)
        /\ \A i \in 1..Len(SuppliedMarkers) :
              /\ PointFeatures[i].geometry.coordinates
                    = <<Emitted(SuppliedMarkers[i].lng), Emitted(SuppliedMarkers[i].lat)>>
              /\ Truthy(SuppliedMarkers[i].name) =>
                    PointFeatures[i].properties.name = SuppliedMarkers[i].name
        /\ handler = "POST_WarningsAware" =>
              /\ Len(MarkerWarningsRecorded) = Len(FailingMarkers)
              /\ \A i \in 1..Len(FailingMarkers) :
                    /\ MarkerWarningsRecorded[i].issue
                          = CoordinateIssue(FailingMarkers[i].lat, FailingMarkers[i].lng)
                    /\ Truthy(FailingMarkers[i].name) =>
                          MarkerWarningsRecorded[i].featureName = FailingMarkers[i].name

\* The marker {lat: 200, lng: 10, name: "Bad"} has been emitted as the Point
\* [10, 200] with one invalid_latitude warning of featureIndex -1.
C14_Witness ==
    /\ Responded
    /\ handler = "POST_WarningsAware"
    /\ request.includeMarkers = Bool(TRUE)
    /\ request.markers = Arr(<<Marker(Num(200), Num(10), Str("Bad"))>>)
    /\ response.status = 200
    /\ Len(PointFeatures) = 1
    /\ PointFeatures[1].geometry.coordinates = <<Num(10), Num(200)>>
    /\ Len(warnings) = 1
    /\ warnings[1].featureIndex = -1
    /\ warnings[1].issue = "invalid_latitude"

\* The request asks for no marker, or supplies none.
NoMarkerRequested ==
    \/ request.includeMarkers \in {Undef, Bool(FALSE)}
    \/ IF handler = "POST_AreaData"
       THEN request.markerData = <<>>
       ELSE request.markers = Undef \/ request.markers = Arr(<<>>)

\* The request with its marker fields left out.
WithoutMarkers ==
    [request EXCEPT !.includeMarkers = Undef, !.markers = Undef, !.markerData = <<>>]

\* C15: in a successful answer to a request whose includeMarkers is false or
\* absent, or whose marker list is empty or absent, there is no Point
\* feature, and the features are the Polygon features the same data gives
\* without any marker field, whatever markers the request carries.
C15_PointsOnlyOnRequest ==
    (Responded /\ response.status = 200 /\ NoMarkerRequested) =>
        /\ PointFeatures = <<>>
        /\ Features = PolygonFeatures
        /\ Features = ResponseOf(WithoutMarkers).geojson.features

\* A request carrying two markers with includeMarkers false has been
\* answered with the Polygon feature of its data only.
C15_Witness ==
    /\ Responded
    /\ handler = "POST"
    /\ request.includeMarkers = Bool(FALSE)
    /\ request.markers.t = "arr"
    /\ Len(request.markers.a) = 2
    /\ response.status = 200
    /\ Len(Features) = 1
    /\ Features[1].geometry.type = "Polygon"

(***************************************************************************)
(* Form of the answers.                                                    *)
(***************************************************************************)
\* The page has shown a successful answer.
AnswerShown == pc = "settled" /\ Responded /\ response.status = 200

CompleteSuccess ==
    /\ response.status = 200
    /\ response.error = ""
    /\ "error" \notin response.keys
    /\ response.geojson.type = "FeatureCollection"

\* A failure: a single error message and nothing else, no feature.
CompleteFailure ==
    /\ response.status \in {400, 500}
    /\ response.keys = {"error"}
    /\ response.error # ""
    /\ response.geojson = NoGeojson
    /\ Features = <<>>

\* The generic failure: server-error status, the generic text, no feature.
GenericFailure ==
    /\ CompleteFailure
    /\ response.status = 500
    /\ response.error = "Failed to convert data to GeoJSON"

\* The data array holds a null element, or an area_list of it a null entry.
NullInData ==
    \E i \in 1..Len(request.data.a) :
        \/ request.data.a[i].null
        \/ \E j \in 1..Len(request.data.a[i].area_list.a) :
              request.data.a[i].area_list.a[j].null

\* No object of the data array or of its area_lists lacks a mandatory field.
NoObjectLacks ==
    \A i \in 1..Len(request.data.a) :
        /\ request.data.a[i].null \/ request.data.a[i].area_list # Undef
             \/ \A f \in MandatoryFields : ~Lacks(request.data.a[i], f)
        /\ \A j \in 1..Len(request.data.a[i].area_list.a) :
              \/ request.data.a[i].area_list.a[j].null
              \/ \A f \in MandatoryFields :
                    ~Lacks(request.data.a[i].area_list.a[j], f)

\* C17: every request ends in exactly one of two outcomes: a complete success
\* carrying the full FeatureCollection (a Polygon feature for every walked
\* feature that emits one, a Point feature for every requested marker), or a
\* failure carrying a single error message and no feature.  An unexpected
\* fault (a body that is not JSON, a null where the handler reads a property:
\* as element of the data, as entry of an area_list, as markers after the
\* features were converted) yields the generic message with status 500 and
\* no feature; the page then shows that message and no output.
C17_TwoOutcomes ==
    /\ Responded => (CompleteSuccess \/ CompleteFailure)
    /\ Responded => ~(CompleteSuccess /\ CompleteFailure)
    /\ (ArrayRequest /\ CompleteSuccess) =>
          /\ Len(PolygonFeatures)
                = Cardinality({k \in 1..Len(Walked) : Emits(Walked[k])})
          /\ Len(PointFeatures) = Len(SuppliedMarkers)
          /\ Len(Features) = Len(PolygonFeatures) + Len(PointFeatures)
    /\ (Responded /\ request.malformed) => GenericFailure
    /\ (Responded /\ response.status = 500) => GenericFailure
    /\ (Responded /\ handler = "POST_AreaData" /\ ~request.malformed
          /\ request.data.t = "arr"
          /\ \E i \in 1..Len(request.data.a) : request.data.a[i].null)
         => GenericFailure
    /\ (Responded /\ handler = "POST" /\ ~request.malformed
          /\ request.data.t = "arr" /\ NullInData /\ NoObjectLacks)
         => GenericFailure
    /\ (Responded /\ handler = "POST" /\ ~request.malformed
          /\ request.data.t = "arr" /\ ~NullInData /\ NoObjectLacks
          /\ request.includeMarkers = Bool(TRUE) /\ request.markers = Null)
         => GenericFailure
    /\ (pc = "settled" /\ Responded /\ response.status # 200) =>
          /\ error = response.error
          /\ outputData = <<>>

\* POST has answered a request for markers whose markers is null and whose
\* one feature is convertible: the fault comes after the conversion, and the
\* answer is the generic failure without the converted feature.
C17_Witness ==
    /\ Responded
    /\ handler = "POST"
    /\ request.data = Arr(<<GoodStation>>)
    /\ Emits(GoodStation)
    /\ request.includeMarkers = Bool(TRUE)
    /\ request.markers = Null
    /\ GenericFailure

(***************************************************************************)
(* The endpoint as the README describes it.                                *)
(***************************************************************************)
\* A handler under src/ has answered a body that is a JSON array.
ArrayBodyAnswered ==
    /\ Responded
    /\ handler \in {"POST", "POST_AreaData"}
    /\ request.body.t = "arr"

\* C18: a POST to /api/convert whose body is a JSON array of area data is
\* answered with a GeoJSON FeatureCollection.
C18_ReadmeContract ==
    ArrayBodyAnswered =>
        /\ response.status = 200
        /\ response.geojson.type = "FeatureCollection"

(***************************************************************************)
(* Invocations that share a process.                                       *)
(***************************************************************************)
\* The answer and the warnings of the one invocation of a run that has no
\* other.
AloneResponse(call) ==
    IF call.handler = "POST_WarningsAware"
    THEN WarningsAwareRespond(call.request)
    ELSE Respond(call.request)

AloneWarnings(call) ==
    IF call.handler = "POST_WarningsAware"
    THEN RecordedWarnings(call.request)
    ELSE <<>>

Returned(n) == calls[n].pc = "done"

\* C19: invocations are independent and stateless.  Whatever other
\* invocations were made, are suspended at their await or have returned, an
\* invocation that returns gives the answer and the warnings it gives when it
\* is the only invocation, so that two invocations of a handler with the same
\* data, includeMarkers and markers return the same features and warnings;
\* the features it sends are the ones of its own list.
C19_Independent ==
    /\ \A n \in Invocations :
          Returned(n) =>
              /\ calls[n].response = AloneResponse(calls[n])
              /\ calls[n].warnings = AloneWarnings(calls[n])
              /\ calls[n].response.status = 200 =>
                    calls[n].response.geojson.features = calls[n].features
    /\ \A n, m \in Invocations :
          (/\ Returned(n) /\ Returned(m)
           /\ calls[n].handler = calls[m].handler
           /\ calls[n].request = calls[m].request)
          => /\ calls[n].response = calls[m].response
             /\ calls[n].warnings = calls[m].warnings

\* Two invocations of the warnings-aware revision with different requests
\* have returned, each with features and warnings of its own: the second one
\* numbers its warning by its own running index.
C19_Witness ==
    /\ Returned(1) /\ Returned(2)
    /\ calls[1].handler = "POST_WarningsAware"
    /\ calls[2].handler = "POST_WarningsAware"
    /\ calls[1].request # calls[2].request
    /\ Len(calls[1].features) = 3
    /\ Len(calls[1].warnings) = 2
    /\ Len(calls[2].features) = 2
    /\ Len(calls[2].warnings) = 1
    /\ calls[2].warnings[1].featureIndex = 1

(***************************************************************************)
(* Order of the two passes.                                                *)
(***************************************************************************)
\* The batch is taken as flat: non-empty, no element with the key area_list.
TakenFlat(data) ==
    Len(data.a) > 0 /\ \A i \in 1..Len(data.a) : data.a[i].area_list = Undef

\* The length of the longest area_list of a batch.
LongestList(data) ==
    LET lengths == {Len(data.a[i].area_list.a) : i \in 1..Len(data.a)} \cup {0}
    IN  CHOOSE m \in lengths : \A k \in lengths : k <= m

\* The violations of a batch, <<i, j, field>> with 1-based positions: element
\* i of a flat batch (j = 0), entry j of the array-valued area_list of
\* element i of a nested one.
Violations(data) ==
    IF TakenFlat(data)
    THEN {v \in (1..Len(data.a)) \X {0} \X MandatoryFields :
            Lacks(data.a[v[1]], v[3])}
    ELSE {v \in (1..Len(data.a)) \X (1..LongestList(data)) \X MandatoryFields :
            /\ data.a[v[1]].area_list.t = "arr"
            /\ v[2] <= Len(data.a[v[1]].area_list.a)
            /\ Lacks(data.a[v[1]].area_list.a[v[2]], v[3])}

\* Traversal order: areas in order, then entries in order, name before
\* polygon on the same feature.
Precedes(v, w) ==
    \/ v[1] < w[1]
    \/ v[1] = w[1] /\ v[2] < w[2]
    \/ v[1] = w[1] /\ v[2] = w[2] /\ v[3] = "name" /\ w[3] = "polygon"

FirstViolation(data) ==
    CHOOSE v \in Violations(data) :
        \A w \in Violations(data) \ {v} : Precedes(v, w)

\* The text that reports a violation, positions 0-based.
ViolationText(data, v) ==
    IF TakenFlat(data)
    THEN "Station at index " \o ToString(v[1] - 1)
         \o ": Missing required '" \o v[3] \o "' field"
    ELSE "Station at area[" \o ToString(v[1] - 1) \o "].area_list["
         \o ToString(v[2] - 1) \o "]: Missing required '" \o v[3] \o "' field"

\* Invocation n has returned from a batch of the data model.
ReturnedBatch(n) ==
    /\ Returned(n)
    /\ ~calls[n].request.malformed
    /\ calls[n].request.data.t = "arr"
    /\ OfDataModel(calls[n].request)

\* Every stop of the validation pass of invocation n has been passed.
ValidationComplete(n) ==
    /\ calls[n].validated = Len(Visits(calls[n].request.data))
    /\ Violations(calls[n].request.data) = {}

\* C20: the structural validation of every reachable feature completes
\* before the conversion of any feature starts: a step that converts a
\* feature is taken only when every feature has been validated, and an
\* invocation that holds a converted feature has validated them all; a batch
\* with violations is answered, without any conversion, by the report of the
\* first violation in traversal order (areas in order, then entries in
\* order), a missing name before a missing polygon on the same feature.
C20_ValidationBeforeConversion ==
    /\ [][\A n \in Invocations :
            calls'[n].processed > calls[n].processed => ValidationComplete(n)]_vars
    /\ [](\A n \in Invocations :
            /\ (calls[n].processed > 0 \/ calls[n].features # <<>>
                  \/ calls[n].warnings # <<>>)
                 => ValidationComplete(n)
            /\ (ReturnedBatch(n) /\ Violations(calls[n].request.data) # {}) =>
                  /\ calls[n].response.status = 400
                  /\ calls[n].response.error
                        = ViolationText(calls[n].request.data,
                                        FirstViolation(calls[n].request.data))
                  /\ calls[n].processed = 0
                  /\ calls[n].features = <<>>)

\* Invocation 1 has validated the two features of its batch and converted
\* the first; invocation 2 has returned from the batch whose second feature
\* lacks name and polygon and whose third lacks its polygon, with the report
\* of the missing name, its first feature not converted.
C20_Witness ==
    /\ calls[1].pc = "processing"
    /\ calls[1].validated = 2
    /\ calls[1].processed = 1
    /\ Len(calls[1].features) = 1
    /\ Returned(2)
    /\ calls[2].handler = "POST"
    /\ Violations(calls[2].request.data)
         = {<<2, 0, "name">>, <<2, 0, "polygon">>, <<3, 0, "polygon">>}
    /\ calls[2].response.error = "Station at index 1: Missing required 'name' field"
    /\ calls[2].validated = 1
    /\ calls[2].features = <<>>

(***************************************************************************)
(* Features do not affect each other.                                      *)
(***************************************************************************)
\* The feature-like objects the handler that answered walks, in order.
WalkedBy ==
    IF handler = "POST_AreaData" THEN FlattenAreas(request.data.a) ELSE Walked

\* The request that carries one feature-like object and nothing else, in the
\* form the handler that answered converts.
AloneRequest(station) ==
    IF handler = "POST_AreaData"
    THEN AreaDataRequest(Arr(<<Item(Undef, Undef, Arr(<<station>>))>>), Undef, <<>>)
    ELSE Request(Arr(<<station>>), Undef, Undef)

\* What the features converted alone give, one after the other.
RECURSIVE AloneFeatures(_)
AloneFeatures(stations) ==
    IF stations = <<>>
    THEN <<>>
    ELSE ResponseOf(AloneRequest(Head(stations))).geojson.features
         \o AloneFeatures(Tail(stations))

PolygonsOf(resp) ==
    SelectSeq(resp.geojson.features, LAMBDA f : f.geometry.type = "Polygon")

\* The request with the polygon of element k of a flat batch replaced by a
\* text that does not decode, with element k removed, with a feature added.
Corrupted(k) ==
    [request EXCEPT !.data.a[k].polygon = Str("not json")]

Removed(k) == [request EXCEPT !.data.a = RemoveAt(request.data.a, k)]

Extended == [request EXCEPT !.data.a = Append(request.data.a, GoodStation)]

\* C21: features do not affect each other.  In a successful answer the
\* Polygon features are, in traversal order, what each input feature gives
\* when it is converted alone (one Polygon or nothing), and they are followed
\* by the Point features, which are what the markers give without any data;
\* in a flat batch, corrupting the polygon of one feature or removing the
\* feature leaves the features of the others as they are, and so does adding
\* a feature.
C21_FeaturesIndependent ==
    (ArrayAnswered /\ response.status = 200) =>
        /\ \A k \in 1..Len(WalkedBy) :
              Len(ResponseOf(AloneRequest(WalkedBy[k])).geojson.features) <= 1
        /\ PolygonFeatures = AloneFeatures(WalkedBy)
        /\ PointFeatures
              = ResponseOf([request EXCEPT !.data = Arr(<<>>)]).geojson.features
        /\ Features = PolygonFeatures \o PointFeatures
        /\ (handler \in GatedHandlers /\ shape = "Flat") =>
              /\ \A k \in 1..Len(request.data.a) :
                    /\ PolygonsOf(ResponseOf(Corrupted(k)))
                          = AloneFeatures(RemoveAt(request.data.a, k))
                    /\ PolygonsOf(ResponseOf(Removed(k)))
                          = AloneFeatures(RemoveAt(request.data.a, k))
              /\ PolygonsOf(ResponseOf(Extended))
                    = PolygonFeatures \o AloneFeatures(<<GoodStation>>)

\* A flat batch of three differently named features whose second has a text
\* that does not decode has been answered with the features of the first and
\* the third.
C21_Witness ==
    /\ ArrayAnswered
    /\ handler = "POST"
    /\ shape = "Flat"
    /\ response.status = 200
    /\ Len(request.data.a) = 3
    /\ request.data.a[1].name = Str("A")
    /\ request.data.a[2].polygon = Str("not json")
    /\ request.data.a[3].name = Str("B")
    /\ Len(PolygonFeatures) = 2
    /\ PolygonFeatures[1].properties.name = Str("A")
    /\ PolygonFeatures[2].properties.name = Str("B")

(***************************************************************************)
(* Skipped elements of a nested batch.                                     *)
(***************************************************************************)
\* The answered batch is walked as a nested one.
NestedAnswered ==
    /\ ArrayAnswered
    /\ handler = "POST_AreaData" \/ shape = "Nested"

\* Element k has no area_list, or one that is no array.
SkippedElement(k) == request.data.a[k].area_list.t # "arr"

\* The request with the name and polygon of element k replaced.
WithOwnFields(k, name, polygon) ==
    [request EXCEPT !.data.a[k].name = name, !.data.a[k].polygon = polygon]

\* Without element k the batch is still walked as a nested one.
StillNested(k) ==
    \/ handler = "POST_AreaData"
    \/ Len(request.data.a) = 1
    \/ \E m \in 1..Len(request.data.a) :
          m # k /\ request.data.a[m].area_list # Undef

\* The entries of the array-valued area_lists, in order.
ListedEntries == FlattenAreas(request.data.a)

\* C22: in a nested batch a top-level element whose area_list is absent or
\* no array is skipped in both passes.  The answer does not depend on its
\* name and polygon, present or missing; the status and the features are
\* those of the batch without it; a batch of such elements only succeeds
\* without a Polygon feature; and a client error of a gated revision reports
\* an entry of an array-valued area_list, never the element.
C22_SkippedArea ==
    NestedAnswered =>
        /\ \A k \in 1..Len(request.data.a) :
              SkippedElement(k) =>
                  /\ response = ResponseOf(WithOwnFields(k, Undef, Undef))
                  /\ response = ResponseOf(WithOwnFields(k, Str("A"), OpenSquare))
                  /\ StillNested(k) =>
                        /\ response.status = ResponseOf(Removed(k)).status
                        /\ Features = ResponseOf(Removed(k)).geojson.features
        /\ (\A k \in 1..Len(request.data.a) : SkippedElement(k)) =>
              /\ response.status = 200
              /\ PolygonFeatures = <<>>
        /\ response.status = 400 =>
              \E k \in 1..Len(ListedEntries) :
                  \E f \in MandatoryFields : Lacks(ListedEntries[k], f)
        /\ response.status = 200 => Len(PolygonFeatures) <= Len(ListedEntries)

\* A nested batch of an element without area_list, name and polygon, and a
\* group with one convertible feature has been answered by POST with that one
\* feature.
C22_Witness ==
    /\ NestedAnswered
    /\ handler = "POST"
    /\ Len(request.data.a) = 2
    /\ request.data.a[1] = Item(Undef, Undef, Undef)
    /\ request.data.a[2] = Item(Undef, Undef, Arr(<<GoodStation>>))
    /\ response.status = 200
    /\ Len(Features) = 1

(***************************************************************************)
(* Polygons that resolve to no non-empty list.                             *)
(***************************************************************************)
\* The polygon passes the structural gate (it is truthy) and is neither text
\* nor a sequence, or an empty sequence, or text that decodes to a non-array
\* or to an empty array.
Unresolvable(station) ==
    /\ Truthy(station.polygon)
    /\ \/ station.polygon.t \notin {"str", "arr"}
       \/ station.polygon.t = "arr" /\ Len(station.polygon.a) = 0
       \/ /\ station.polygon.t = "str"
          /\ JSONParse(station.polygon.s).ok
          /\ \/ JSONParse(station.polygon.s).val.t # "arr"
             \/ Len(JSONParse(station.polygon.s).val.a) = 0

\* C23: a feature whose polygon passes the structural gate but cannot be
\* resolved to a non-empty list emits no Polygon feature and records no
\* warning, and the request still succeeds: the Polygon features are those of
\* the other features, and no warning carries the position of the feature.
C23_UnresolvablePolygon ==
    (ArrayRequest /\ ~Offence) =>
        \A k \in 1..Len(Walked) :
            Unresolvable(Walked[k]) =>
                /\ response.status = 200
                /\ response.error = ""
                /\ ResponseOf(AloneRequest(Walked[k])).status = 200
                /\ ResponseOf(AloneRequest(Walked[k])).geojson.features = <<>>
                /\ PolygonFeatures = AloneFeatures(RemoveAt(Walked, k))
                /\ Len(PolygonFeatures)
                      = Cardinality({m \in 1..Len(Walked) : m # k /\ Emits(Walked[m])})
                /\ \A w \in 1..Len(warnings) : warnings[w].featureIndex # k - 1

\* The warnings-aware revision has answered a group of three whose second
\* feature has the polygon [] with the features of the first and the third
\* and without warnings.
C23_Witness ==
    /\ ArrayRequest
    /\ handler = "POST_WarningsAware"
    /\ shape = "Nested"
    /\ Len(Walked) = 3
    /\ Walked[2].polygon = Arr(<<>>)
    /\ Unresolvable(Walked[2])
    /\ response.status = 200
    /\ Len(PolygonFeatures) = 2
    /\ warnings = <<>>

(***************************************************************************)
(* Classification of the issues.                                           *)
(***************************************************************************)
\* The issue of a pair of which the latitude fails, the longitude fails, or
\* both: both_invalid before invalid_latitude before invalid_longitude.
Classified(latitudeFails, longitudeFails) ==
    IF latitudeFails /\ longitudeFails THEN "both_invalid"
    ELSE IF latitudeFails THEN "invalid_latitude"
    ELSE IF longitudeFails THEN "invalid_longitude"
    ELSE ""

\* The issue of a matched pair: classified by the coercion when a component
\* does not coerce, by the ranges when both coerce.
ExpectedIssue(lat, lng) ==
    IF ~Coerce(lat).ok \/ ~Coerce(lng).ok
    THEN Classified(~Coerce(lat).ok, ~Coerce(lng).ok)
    ELSE Classified(~ValidLatitude(Coerce(lat).n), ~ValidLongitude(Coerce(lng).n))

\* The recorded warnings agree with the classification of the pair.
AsClassified(recorded, lat, lng) ==
    /\ Len(recorded) <= 1
    /\ recorded = <<>> <=> ExpectedIssue(lat, lng) = ""
    /\ recorded # <<>> => recorded[1].issue = ExpectedIssue(lat, lng)

\* The supplied markers of which a component fails, in order.
MisplacedMarkers ==
    SelectSeq(SuppliedMarkers, LAMBDA m : ExpectedIssue(m.lat, m.lng) # "")

BadgeOf ==
    [both_invalid |-> "t.warningBothInvalid",
     invalid_latitude |-> "t.warningInvalidLatitude",
     invalid_longitude |-> "t.warningInvalidLongitude",
     invalid_json |-> "t.warningInvalidJson"]

\* C24: the classification of the issues has a fixed precedence, the same
\* for coercion failures and for range failures: both_invalid when both
\* components fail, else invalid_latitude when the latitude fails, else
\* invalid_longitude when the longitude fails; every validated point of a
\* feature and every marker has at most one warning, none when nothing
\* fails; and the page shows each warning under the badge of its issue.
C24_IssuePrecedence ==
    /\ (ArrayRequest /\ ~Offence /\ handler = "POST_WarningsAware") =>
          /\ \A k \in 1..Len(Walked) :
                Emits(Walked[k]) =>
                    \A i \in 1..Len(ResolvedPoints(Walked[k])) :
                        AsClassified(PointWarnings(k - 1, i - 1),
                                     LngLat(ResolvedPoints(Walked[k])[i])[2],
                                     LngLat(ResolvedPoints(Walked[k])[i])[1])
          /\ Len(MarkerWarningsRecorded) = Len(MisplacedMarkers)
          /\ \A m \in 1..Len(MisplacedMarkers) :
                MarkerWarningsRecorded[m].issue
                    = ExpectedIssue(MisplacedMarkers[m].lat, MisplacedMarkers[m].lng)
          /\ \A w \in 1..Len(warnings) : warnings[w].issue \in DOMAIN BadgeOf
    /\ AnswerShown =>
          \A w \in 1..Len(validationWarnings) :
              /\ validationWarnings[w].issue \in DOMAIN BadgeOf
              /\ IssueBadge(validationWarnings[w].issue)
                    = BadgeOf[validationWarnings[w].issue]

\* A point whose latitude and longitude are numbers beyond their ranges has
\* one warning, both_invalid; so has a point of which neither is a number.
C24_Witness ==
    /\ ArrayRequest
    /\ handler = "POST_WarningsAware"
    /\ Len(Walked) = 1
    /\ Emits(Walked[1])
    /\ Len(ResolvedPoints(Walked[1])) = 2
    /\ LET raw == LngLat(ResolvedPoints(Walked[1])[2])
       IN  /\ raw[1].t = "num" /\ ~ValidLongitude(raw[1].n)
           /\ raw[2].t = "num" /\ ~ValidLatitude(raw[2].n)
    /\ Len(warnings) = 1
    /\ warnings[1].issue = "both_invalid"

(***************************************************************************)
(* Indices of the warnings.                                                *)
(***************************************************************************)
\* The name a marker is emitted with: "Custom Marker" for a blank or absent
\* name, its own name otherwise.
EmittedName(marker) ==
    IF marker.name = Undef \/ marker.name = Str("")
    THEN Str("Custom Marker")
    ELSE marker.name

\* The warning is attributed to a feature of the flattening context: its
\* featureIndex is the position of a walked feature whose name it carries,
\* and it is either the invalid_json warning of that feature (no coordinate
\* index) or the warning of one of its points.
OfFeature(w) ==
    /\ w.featureIndex \in 0..(Len(Walked) - 1)
    /\ LET station == Walked[w.featureIndex + 1]
       IN  /\ w.featureName = station.name
           /\ IF w.issue = "invalid_json"
              THEN /\ w.coordinateIndex = -1
                   /\ FailsToDecode(station)
              ELSE /\ ~FailsToDecode(station)
                   /\ w.coordinateIndex \in 0..(Len(ResolvedPoints(station)) - 1)
                   /\ Recognized(ResolvedPoints(station)[w.coordinateIndex + 1])
                   /\ LET c == LngLat(ResolvedPoints(station)[w.coordinateIndex + 1])
                      IN  w.issue = ExpectedIssue(c[2], c[1])

\* The warning is attributed to a supplied marker: featureIndex -1, the
\* issue and the name being those of a marker of which a component fails.
OfMarker(w) ==
    /\ w.featureIndex = -1
    /\ \E m \in 1..Len(SuppliedMarkers) :
          /\ w.issue = ExpectedIssue(SuppliedMarkers[m].lat, SuppliedMarkers[m].lng)
          /\ w.featureName = EmittedName(SuppliedMarkers[m])

C26_PointNames ==
    (Responded /\ response.status = 200) =>
        /\ Len(PointFeatures) = Len(SuppliedMarkers)
        /\ \A m \in 1..Len(PointFeatures) :
              /\ PointFeatures[m].properties.name # Undef
              /\ PointFeatures[m].properties.name # Str("")
              /\ PointFeatures[m].properties.name = EmittedName(SuppliedMarkers[m])

(***************************************************************************)
(* No server error for a well-typed request.                               *)
(***************************************************************************)
\* A handler under src/ has answered a well-typed request: the body is JSON,
\* data is an array of objects, every entry of every array-valued area_list
\* is an object, and markers is an array of objects (or absent, the default
\* being the empty list).
WellTyped ==
    /\ Responded
    /\ handler \in {"POST", "POST_AreaData"}
    /\ ~request.malformed
    /\ request.data.t = "arr"
    /\ ~NullInData
    /\ handler = "POST" => request.markers.t \in {"arr", "undefined"}

\* A walked feature throws while it is converted.
SomeStationThrows ==
    \E k \in 1..Len(WalkedBy) :
        \/ FailsToDecode(WalkedBy[k])
        \/ HasUnrecognizedPoint(WalkedBy[k])

C28_ErrorWithoutOutput ==
    (pc = "settled" /\ error # "") =>
        /\ outputData = <<>>
        /\ validationWarnings = <<>>

(***************************************************************************)
(* The loading flag.                                                       *)
(***************************************************************************)
\* An attempt is under way: the request is sent and the handler has not
\* ended.
AttemptUnderWay == pc \in {"fetching", "fetched"}

\* A step of handleConvert that ends the attempt before any request: the
\* empty input, the JSON syntax error, the marker error.
EndsWithoutRequest == pc \in {"idle", "settled"} /\ pc' = "settled"

\* C29: every call of handleConvert that sets loading to true sets it back
\* to false once the request settles, on every path (JSON syntax error,
\* marker error, answer that is not OK, rejected fetch, success); loading is
\* true only between the start of an attempt and its end, and the path of
\* the empty input never sets it.
C29_LoadingLiveness ==
    /\ loading ~> ~loading
    /\ [](loading <=> AttemptUnderWay)
    /\ [][EndsWithoutRequest => (~loading /\ ~loading')]_vars
    /\ [][(AttemptUnderWay /\ pc' = "settled") => (loading /\ ~loading')]_vars

\* An attempt whose request was answered with status 400 has ended with the
\* error of the answer and loading false.
C29_Witness ==
    /\ pc = "settled"
    /\ ~loading
    /\ Trim(form.inputData) # ""
    /\ handler = "POST_WarningsAware"
    /\ response.status = 400
    /\ error = response.error

(***************************************************************************)
(* The marker gate of the page.                                            *)
(***************************************************************************)
\* The marker of the form offends: a field is blank or holds no number, the
\* latitude lies outside [-90, 90] or the longitude outside [-180, 180].
Offends(marker) ==
    \/ marker.lat = "" \/ marker.lng = ""
    \/ ParseFloat(marker.lat).nan \/ ParseFloat(marker.lng).nan
    \/ ~ValidLatitude(ParseFloat(marker.lat).n)
    \/ ~ValidLongitude(ParseFloat(marker.lng).n)

\* The position of the first offending marker, 0 when there is none.
FirstOffending(markers) ==
    IF \E i \in 1..Len(markers) : Offends(markers[i])
    THEN CHOOSE i \in 1..Len(markers) :
            /\ Offends(markers[i])
            /\ \A j \in 1..(i - 1) : ~Offends(markers[j])
    ELSE 0

\* The error names marker i.
NamesMarker(text, i) ==
    text \in {"Marker " \o ToString(i) \o tail :
                tail \in {": Please provide valid latitude and longitude values",
                          ": Latitude must be between -90 and 90 degrees",
                          ": Longitude must be between -180 and 180 degrees"}}

\* A step of handleConvert up to the fetch, on the form it leaves in form'.
ConvertStep == pc = "idle" /\ pc' \in {"fetching", "settled"}

\* The marker of a request is in range.
InRange(marker) ==
    /\ marker.lat.t = "num" /\ ValidLatitude(marker.lat.n)
    /\ marker.lng.t = "num" /\ ValidLongitude(marker.lng.n)

====
